---------------------------- MODULE Spec2Model ----------------------------
(***************************************************************************)
(* Bodies, body parts, equipment slots and race templates of the MUD       *)
(* (src/src/body.c, src/src/races.c, src/src/character.c and the script    *)
(* wrappers in src/src/scripts).                                           *)
(*                                                                         *)
(* Memory is modelled as a heap of BODY_DATA cells addressed by small      *)
(* integers, so that aliasing between a creature's body, a script-held     *)
(* body and a race template is visible in the state.  Lists keep their     *)
(* iteration order as TLA+ sequences.                                      *)
(***************************************************************************)
EXTENDS Integers, Sequences, FiniteSets, TLC

VARIABLES
  heap,        \* address -> BODY_DATA cell (struct body_data, live or freed)
  ch_body,     \* creature -> address of its body       (CHAR_DATA.body)
  ch_race,     \* creature -> name of its race          (CHAR_DATA.race)
  race_table,  \* race name -> address of the template  (RACE_DATA.body), 0 = absent
  capsule,     \* address of the body a script holds (pyworld new_body), 0 = none
  store,       \* creature -> the storage set charStore wrote for it
  bodysize_list,  \* the list of body size names, NULL until first used
  bodypos_list,   \* the list of position type names, NULL until first used
  obj_data,    \* item -> where it is: room, container, carrier, wearer (OBJ_DATA)
  last         \* the call made by the last step: its arguments, result, heap before

vars == <<heap, ch_body, ch_race, race_table, capsule, store,
          bodysize_list, bodypos_list, obj_data, last>>

-----------------------------------------------------------------------------
(* Bounds of the model *)

MaxAddr  == 7      \* number of BODY_DATA cells that can be allocated at a time
MaxReq   == 2      \* longest keyword list passed to an equip call
MaxWorn  == 3      \* most (part, item) attachments on one body
MaxParts == 6      \* most parts on a body built or edited by scripts

(* Program constants *)

BODYSIZE_NONE   == -1
BODYSIZE_MEDIUM == 3
NULL            == "<NULL>"     \* a null char pointer
NOPART          == 0            \* a null BODYPART pointer (parts are indexed from 1)
NOBODY          == 0            \* a null BODY_DATA pointer

Addrs     == 1..MaxAddr
Creatures == {"c1", "c2"}
Items     == {"A", "B", "C"}

-----------------------------------------------------------------------------
(* Strings.  strcasecmp compares after folding case; the model folds the   *)
(* spellings it uses.                                                      *)

Lower(s) ==
  CASE s = "RIGHT HAND" -> "right hand"
    [] s = "Left Hand"  -> "left hand"
    [] s = "EAR"        -> "ear"
    [] s = "Tail"       -> "tail"
    [] s = "MEDIUM"     -> "medium"
    [] s = "Titanic"    -> "titanic"
    [] s = "HEAD"       -> "head"
    [] s = "LARGE"      -> "large"
    [] OTHER            -> s

strcasecmp(a, b) == IF Lower(a) = Lower(b) THEN 0 ELSE 1

MAX(a, b) == IF a > b THEN a ELSE b

SetMin(S) == CHOOSE x \in S : \A y \in S : x <= y
SetMax(S) == CHOOSE x \in S : \A y \in S : x >= y

(* Sequences over S of length at most n *)
SeqUpTo(S, n) == UNION {[1..k -> S] : k \in 0..n}

-----------------------------------------------------------------------------
(* The list primitives the body code uses (list.c).                        *)

listPut(L, elem) == Append(L, elem)

listIn(L, elem) == \E i \in 1..Len(L) : L[i] = elem

(* listRemove takes the element out of the list, the others keep their order *)
listRemove(L, elem) == SelectSeq(L, LAMBDA x : x # elem)

listSize(L) == Len(L)

(* a LIST pointer that may be NULL *)
NullList == [null |-> TRUE, list |-> <<>>]

(* objIsType: the equipment classes of the items *)
ItemClass == [A |-> "armor", B |-> "cloak", C |-> "armor"]
Classes   == {"armor", "cloak"}

objIsType(obj, type) == ItemClass[obj] = type

-----------------------------------------------------------------------------
(* Body parts and bodies as values *)

newBodypart(name, type, size) ==
  [name |-> name, type |-> type, size |-> MAX(0, size), equipment |-> <<>>]

bodypartCopy_keepEq(P) ==
  [name |-> P.name, type |-> P.type, size |-> P.size, equipment |-> P.equipment]

bodypartCopy(P) ==
  [name |-> P.name, type |-> P.type, size |-> P.size, equipment |-> <<>>]

(* a freed or never allocated cell *)
FreeCell == [live |-> FALSE, parts |-> <<>>, size |-> 0]

(* bodyCopy without the allocation: the value of the new body *)
bodyCopyValue(B) ==
  [live |-> TRUE,
   parts |-> [i \in 1..Len(B.parts) |-> bodypartCopy(B.parts[i])],
   size |-> B.size]

findBodypart_caseSensitive(B, pos) ==
  LET hits == {i \in 1..Len(B.parts) : B.parts[i].name = pos}
  IN  IF hits = {} THEN NOPART ELSE SetMin(hits)

findBodypart(B, pos) ==
  LET hits == {i \in 1..Len(B.parts) : strcasecmp(B.parts[i].name, pos) = 0}
  IN  IF hits = {} THEN NOPART ELSE SetMin(hits)

findFreeBodypart_last(B, type) ==
  LET hits == {i \in 1..Len(B.parts) :
                 /\ strcasecmp(B.parts[i].type, type) = 0
                 /\ listSize(B.parts[i].equipment) = 0}
  IN  IF hits = {} THEN NOPART ELSE SetMax(hits)

findFreeBodypart(B, type) ==
  LET hits == {i \in 1..Len(B.parts) :
                 /\ strcasecmp(B.parts[i].type, type) = 0
                 /\ listSize(B.parts[i].equipment) = 0}
  IN  IF hits = {} THEN NOPART ELSE SetMin(hits)

bodyAddPosition_append(B, pos, type, size) ==
  [B EXCEPT !.parts = listPut(@, newBodypart(pos, type, size))]

(* bodyAddPosition: update in place, or put a new part on the list *)
bodyAddPosition(B, pos, type, size) ==
  LET part == findBodypart(B, pos)
  IN  IF part # NOPART
      THEN [B EXCEPT !.parts[part].type = type, !.parts[part].size = size]
      ELSE [B EXCEPT !.parts = listPut(@, newBodypart(pos, type, size))]

(* a part that has equipment is not removed *)
bodyRemovePosition_emptyOnly(B, pos) ==
  LET part == findBodypart(B, pos)
  IN  IF part = NOPART \/ listSize(B.parts[part].equipment) > 0
      THEN [body |-> B, ret |-> FALSE]
      ELSE [body |-> [B EXCEPT !.parts = SubSeq(@, 1, part - 1)
                                          \o SubSeq(@, part + 1, Len(@))],
            ret |-> TRUE]

(* bodyRemovePosition: the body afterwards and the value returned *)
bodyRemovePosition(B, pos) ==
  LET part == findBodypart(B, pos)
  IN  IF part = NOPART
      THEN [body |-> B, ret |-> FALSE]
      ELSE [body |-> [B EXCEPT !.parts = SubSeq(@, 1, part - 1)
                                          \o SubSeq(@, part + 1, Len(@))],
            ret |-> TRUE]

bodySetSize(B, size) == [B EXCEPT !.size = size]

-----------------------------------------------------------------------------
(* Equipping.  pos_list is the keyword list parse_keywords returns for the *)
(* comma-separated argument; parts holds the staged parts (their indices). *)

RECURSIVE PutOnAll(_, _, _)
(* while((part = listPop(parts)) != NULL) listPut(part->equipment, obj) *)
PutOnAll(B, obj, parts) ==
  IF parts = <<>> THEN B
  ELSE PutOnAll([B EXCEPT !.parts[Head(parts)].equipment = listPut(@, obj)],
                obj, Tail(parts))

RECURSIVE RemoveFromAll(_, _, _)
(* while((part = listPop(parts)) != NULL) listRemove(part->equipment, obj) *)
RemoveFromAll(B, obj, parts) ==
  IF parts = <<>> THEN B
  ELSE RemoveFromAll([B EXCEPT !.parts[Head(parts)].equipment = listRemove(@, obj)],
                     obj, Tail(parts))

RECURSIVE PostypesStage(_, _, _, _)
(* the staging loop of bodyEquipPostypes: the item is put on each part as  *)
(* it is found, so that the next search skips it                           *)
PostypesStage(B, obj, pos_list, parts) ==
  IF pos_list = <<>> THEN [body |-> B, parts |-> parts]
  ELSE LET part == findFreeBodypart(B, Head(pos_list))
       IN  IF part # NOPART /\ listSize(B.parts[part].equipment) = 0
           THEN PostypesStage([B EXCEPT !.parts[part].equipment = listPut(@, obj)],
                              obj, Tail(pos_list), listPut(parts, part))
           ELSE PostypesStage(B, obj, Tail(pos_list), parts)

bodyEquipPostypes_noRollback(B, obj, pos_list) ==
  IF listSize(pos_list) = 0 THEN [body |-> B, ret |-> FALSE]
  ELSE LET st == PostypesStage(B, obj, pos_list, <<>>)
       IN  [body |-> st.body, ret |-> listSize(pos_list) = listSize(st.parts)]

(* the list is not tested for being empty *)
bodyEquipPostypes_noEmptyCheck(B, obj, pos_list) ==
  LET st == PostypesStage(B, obj, pos_list, <<>>)
  IN  IF listSize(pos_list) # listSize(st.parts)
      THEN [body |-> RemoveFromAll(st.body, obj, st.parts), ret |-> FALSE]
      ELSE [body |-> st.body, ret |-> TRUE]

bodyEquipPostypes(B, obj, pos_list) ==
  IF listSize(pos_list) = 0 THEN [body |-> B, ret |-> FALSE]
  ELSE LET st == PostypesStage(B, obj, pos_list, <<>>)
       IN  IF listSize(pos_list) # listSize(st.parts)
           THEN [body |-> RemoveFromAll(st.body, obj, st.parts), ret |-> FALSE]
           ELSE [body |-> st.body, ret |-> TRUE]

RECURSIVE PosnamesStage_dup(_, _, _)
PosnamesStage_dup(B, pos_list, parts) ==
  IF pos_list = <<>> THEN parts
  ELSE LET part == findBodypart(B, Head(pos_list))
       IN  IF /\ part # NOPART
              /\ listSize(B.parts[part].equipment) = 0
           THEN PosnamesStage_dup(B, Tail(pos_list), listPut(parts, part))
           ELSE PosnamesStage_dup(B, Tail(pos_list), parts)

bodyEquipPosnames_dup(B, obj, pos_list) ==
  IF listSize(pos_list) = 0 THEN [body |-> B, ret |-> FALSE]
  ELSE LET parts == PosnamesStage_dup(B, pos_list, <<>>)
           success == ~(listSize(parts) # listSize(pos_list) \/ listSize(parts) = 0)
       IN  [body |-> PutOnAll(B, obj, parts), ret |-> success]

(* a named part is staged whether or not it has equipment *)
RECURSIVE PosnamesStage_occupied(_, _, _)
PosnamesStage_occupied(B, pos_list, parts) ==
  IF pos_list = <<>> THEN parts
  ELSE LET part == findBodypart(B, Head(pos_list))
       IN  IF part # NOPART /\ ~listIn(parts, part)
           THEN PosnamesStage_occupied(B, Tail(pos_list), listPut(parts, part))
           ELSE PosnamesStage_occupied(B, Tail(pos_list), parts)

bodyEquipPosnames_occupied(B, obj, pos_list) ==
  IF listSize(pos_list) = 0 THEN [body |-> B, ret |-> FALSE]
  ELSE LET parts == PosnamesStage_occupied(B, pos_list, <<>>)
           success == ~(listSize(parts) # listSize(pos_list) \/ listSize(parts) = 0)
       IN  [body |-> PutOnAll(B, obj, parts), ret |-> success]

RECURSIVE PosnamesStage(_, _, _)
(* the staging loop of bodyEquipPosnames *)
PosnamesStage(B, pos_list, parts) ==
  IF pos_list = <<>> THEN parts
  ELSE LET part == findBodypart(B, Head(pos_list))
       IN  IF /\ part # NOPART
              /\ listSize(B.parts[part].equipment) = 0
              /\ ~listIn(parts, part)
           THEN PosnamesStage(B, Tail(pos_list), listPut(parts, part))
           ELSE PosnamesStage(B, Tail(pos_list), parts)

(* bodyEquipPosnames: the parts are filled whatever `success' is *)
bodyEquipPosnames(B, obj, pos_list) ==
  IF listSize(pos_list) = 0 THEN [body |-> B, ret |-> FALSE]
  ELSE LET parts == PosnamesStage(B, pos_list, <<>>)
           success == ~(listSize(parts) # listSize(pos_list) \/ listSize(parts) = 0)
       IN  [body |-> PutOnAll(B, obj, parts), ret |-> success]

(* the can_equip decision of bodyEquipPosnamesEx for one part *)
can_equip_sameTypeOnly(P, equipment_type, force) ==
  IF force THEN TRUE
  ELSE IF listSize(P.equipment) = 0 THEN TRUE
  ELSE IF equipment_type # NULL
       THEN \E i \in 1..Len(P.equipment) : objIsType(P.equipment[i], equipment_type)
  ELSE TRUE

(* without a type every occupant conflicts *)
can_equip_nullStrict(P, equipment_type, force) ==
  IF force THEN TRUE
  ELSE IF listSize(P.equipment) = 0 THEN TRUE
  ELSE IF equipment_type # NULL
       THEN ~(\E i \in 1..Len(P.equipment) : objIsType(P.equipment[i], equipment_type))
  ELSE FALSE

(* force is not looked at *)
can_equip_noForce(P, equipment_type, force) ==
  IF listSize(P.equipment) = 0 THEN TRUE
  ELSE IF equipment_type # NULL
       THEN ~(\E i \in 1..Len(P.equipment) : objIsType(P.equipment[i], equipment_type))
  ELSE TRUE

can_equip(P, equipment_type, force) ==
  IF force THEN TRUE
  ELSE IF listSize(P.equipment) = 0 THEN TRUE
  ELSE IF equipment_type # NULL
       THEN ~(\E i \in 1..Len(P.equipment) : objIsType(P.equipment[i], equipment_type))
  ELSE TRUE

RECURSIVE PosnamesExStage(_, _, _, _, _)
(* the staging loop of bodyEquipPosnamesEx *)
PosnamesExStage(B, pos_list, equipment_type, force, parts) ==
  IF pos_list = <<>> THEN parts
  ELSE LET part == findBodypart(B, Head(pos_list))
       IN  IF part = NOPART
           THEN PosnamesExStage(B, Tail(pos_list), equipment_type, force, parts)
           ELSE IF listIn(parts, part)
           THEN PosnamesExStage(B, Tail(pos_list), equipment_type, force, parts)
           ELSE IF can_equip(B.parts[part], equipment_type, force)
           THEN PosnamesExStage(B, Tail(pos_list), equipment_type, force,
                                listPut(parts, part))
           ELSE PosnamesExStage(B, Tail(pos_list), equipment_type, force, parts)

(* bodyEquipPosnamesEx: the parts are filled whatever `success' is *)
bodyEquipPosnamesEx(B, obj, pos_list, equipment_type, force) ==
  IF listSize(pos_list) = 0 THEN [body |-> B, ret |-> FALSE]
  ELSE LET parts == PosnamesExStage(B, pos_list, equipment_type, force, <<>>)
           success == ~(listSize(parts) # listSize(pos_list) \/ listSize(parts) = 0)
       IN  [body |-> PutOnAll(B, obj, parts), ret |-> success]

RECURSIVE EquippedWhereFrom(_, _, _)
(* bodyEquippedWhere: the names of the parts holding obj, in body order;   *)
(* the C string joins them with ", ", the empty sequence is ""             *)
EquippedWhereFrom(B, obj, i) ==
  IF i > Len(B.parts) THEN <<>>
  ELSE (IF listIn(B.parts[i].equipment, obj) THEN <<B.parts[i].name>> ELSE <<>>)
       \o EquippedWhereFrom(B, obj, i + 1)

(* only the first part that holds obj is named *)
bodyEquippedWhere_first(B, obj) ==
  LET holds == {i \in 1..Len(B.parts) : listIn(B.parts[i].equipment, obj)}
  IN  IF holds = {} THEN <<>> ELSE <<B.parts[SetMin(holds)].name>>

bodyEquippedWhere(B, obj) == EquippedWhereFrom(B, obj, 1)

bodyUnequip_firstPart(B, obj) ==
  LET holds == {i \in 1..Len(B.parts) : listIn(B.parts[i].equipment, obj)}
  IN  [body |-> IF holds = {} THEN B
                ELSE [B EXCEPT !.parts[SetMin(holds)].equipment = listRemove(@, obj)],
       ret |-> holds # {}]

(* bodyUnequip: one listRemove on every part that holds the item *)
bodyUnequip(B, obj) ==
  [body |-> [B EXCEPT !.parts =
               [i \in 1..Len(B.parts) |->
                  IF listIn(B.parts[i].equipment, obj)
                  THEN [B.parts[i] EXCEPT !.equipment = listRemove(@, obj)]
                  ELSE B.parts[i]]],
   ret |-> \E i \in 1..Len(B.parts) : listIn(B.parts[i].equipment, obj)]

(* bodyGetEquipment: the equipment list of the named part, NULL when the   *)
(* body has no part of that name                                           *)
bodyGetEquipment(B, pos) ==
  LET part == findBodypart(B, pos)
  IN  IF part # NOPART THEN [null |-> FALSE, list |-> B.parts[part].equipment]
      ELSE NullList

(* the inner loop of bodyGetAllEq: the objects of a part's list that the   *)
(* result does not hold yet are put on it                                  *)
RECURSIVE PutNew(_, _, _)
PutNew(equipment, eq, k) ==
  IF k > Len(eq) THEN equipment
  ELSE PutNew(IF ~listIn(equipment, eq[k]) THEN listPut(equipment, eq[k])
              ELSE equipment,
              eq, k + 1)

(* the outer loop: part by part, in body order *)
RECURSIVE AllEqFrom(_, _, _)
AllEqFrom(B, equipment, i) ==
  IF i > Len(B.parts) THEN equipment
  ELSE AllEqFrom(B,
                 IF listSize(B.parts[i].equipment) > 0
                 THEN PutNew(equipment, B.parts[i].equipment, 1)
                 ELSE equipment,
                 i + 1)

bodyGetAllEq(B) == AllEqFrom(B, <<>>, 1)

(* every occurrence on every part is handed back *)
RECURSIVE EveryEqFrom(_, _)
EveryEqFrom(B, i) ==
  IF i > Len(B.parts) THEN <<>>
  ELSE B.parts[i].equipment \o EveryEqFrom(B, i + 1)

bodyUnequipAll_noDedup(B) ==
  [body |-> [B EXCEPT !.parts =
               [i \in 1..Len(B.parts) |-> [B.parts[i] EXCEPT !.equipment = <<>>]]],
   ret  |-> EveryEqFrom(B, 1)]

(* bodyUnequipAll: the list built as in bodyGetAllEq, and every part that  *)
(* had equipment gets a new empty list                                     *)
bodyUnequipAll(B) ==
  [body |-> [B EXCEPT !.parts =
               [i \in 1..Len(B.parts) |->
                  IF listSize(B.parts[i].equipment) > 0
                  THEN [B.parts[i] EXCEPT !.equipment = <<>>]
                  ELSE B.parts[i]]],
   ret  |-> AllEqFrom(B, <<>>, 1)]

(* number of (part, item) attachments on a body *)
RECURSIVE WornFrom(_, _)
WornFrom(B, i) ==
  IF i > Len(B.parts) THEN 0
  ELSE Len(B.parts[i].equipment) + WornFrom(B, i + 1)

Worn(B) == WornFrom(B, 1)

-----------------------------------------------------------------------------
(* The weighted sampler.  A keyword filter is a C string that may be null: *)
(* keys is the list of its comma-separated keywords, empty for "".         *)

NullStr   == [null |-> TRUE,  keys |-> <<>>]
Str(keys) == [null |-> FALSE, keys |-> keys]

(* is_keyword(list, word, FALSE) (utils.c): word is one of the keywords of *)
(* the list, compared without case                                         *)
is_keyword(list, word, abbrev_ok) ==
  \E k \in 1..Len(list.keys) : strcasecmp(list.keys[k], word) = 0

(* rand_number(lo, hi) (utils.c): the values a draw can give *)
rand_number(lo, hi) == lo..hi

(* the value of a double that is the quotient of two integers, as the      *)
(* fraction in lowest terms with a positive denominator                    *)
Abs(n) == IF n < 0 THEN -n ELSE n

RECURSIVE GCD(_, _)
GCD(a, b) == IF b = 0 THEN a ELSE GCD(b, a % b)

Zero == [num |-> 0, den |-> 1]

Quotient(n, d) ==
  LET g == GCD(Abs(n), Abs(d))
      s == IF d < 0 THEN -1 ELSE 1
  IN  [num |-> s * (n \div g), den |-> s * (d \div g)]

RECURSIVE BodySizeFrom(_, _)
(* body_size += part->size, over all parts *)
BodySizeFrom(B, i) ==
  IF i > Len(B.parts) THEN 0
  ELSE B.parts[i].size + BodySizeFrom(B, i + 1)

RECURSIVE PartSizeFrom(_, _, _)
(* if(is_keyword(pos, part->name, FALSE)) part_size += part->size *)
PartSizeFrom(B, pos, i) ==
  IF i > Len(B.parts) THEN 0
  ELSE (IF is_keyword(pos, B.parts[i].name, FALSE) THEN B.parts[i].size ELSE 0)
       + PartSizeFrom(B, pos, i + 1)

bodyPartRatio_matchedOnly(B, pos) ==
  LET part_size == PartSizeFrom(B, pos, 1)
      body_size == PartSizeFrom(B, pos, 1)
  IN  IF body_size = 0 THEN Zero ELSE Quotient(part_size, body_size)

(* bodyPartRatio: pos is not null *)
bodyPartRatio(B, pos) ==
  LET part_size == PartSizeFrom(B, pos, 1)
      body_size == BodySizeFrom(B, 1)
  IN  IF body_size = 0 THEN Zero ELSE Quotient(part_size, body_size)

(* the parts bodyRandPart does not skip:                                   *)
(* if(pos && *pos && !is_keyword(pos, part->name, FALSE)) continue;        *)
Skipped(pos, P) == ~pos.null /\ pos.keys # <<>> /\ ~is_keyword(pos, P.name, FALSE)

RECURSIVE SizeSumFrom(_, _, _)
(* the first loop of bodyRandPart *)
SizeSumFrom(B, pos, i) ==
  IF i > Len(B.parts) THEN 0
  ELSE (IF Skipped(pos, B.parts[i]) THEN 0 ELSE B.parts[i].size)
       + SizeSumFrom(B, pos, i + 1)

RECURSIVE RandWalk(_, _, _, _)
(* the second loop of bodyRandPart *)
RandWalk(B, pos, pos_roll, i) ==
  IF i > Len(B.parts) THEN NULL
  ELSE IF Skipped(pos, B.parts[i]) THEN RandWalk(B, pos, pos_roll, i + 1)
  ELSE IF pos_roll - B.parts[i].size <= 0 THEN B.parts[i].name
  ELSE RandWalk(B, pos, pos_roll - B.parts[i].size, i + 1)

(* what the second deleteListIterator of an iterator, a read of freed      *)
(* memory followed by a second free, can come to: the call goes on, or the *)
(* process is aborted                                                      *)
ABORT == "<ABORT>"
UBOutcomes == {"goes on", "aborts"}

bodyRandPart_fromZero(B, pos, pos_roll, ub) ==
  IF SizeSumFrom(B, pos, 1) <= 1
  THEN [ret |-> IF ub = "aborts" THEN ABORT ELSE NULL, iters |-> <<2>>]
  ELSE [ret |-> RandWalk(B, pos, pos_roll - 1, 1), iters |-> <<1, 1>>]

(* bodyRandPart: pos_roll is the draw, ub the outcome of the second        *)
(* release on the early return; the value returned, and for each iterator  *)
(* created how many times deleteListIterator was called on it              *)
bodyRandPart(B, pos, pos_roll, ub) ==
  IF SizeSumFrom(B, pos, 1) <= 1
  THEN [ret |-> IF ub = "aborts" THEN ABORT ELSE NULL, iters |-> <<2>>]
  ELSE [ret |-> RandWalk(B, pos, pos_roll, 1), iters |-> <<1, 1>>]

-----------------------------------------------------------------------------
(* Bodies in memory.  h is a heap; the functions that allocate return the  *)
(* heap afterwards and the address of the new body.                        *)

(* malloc: a cell that is not in use, the lowest for definiteness *)
malloc(h) == SetMin({a \in DOMAIN h : ~h[a].live})

HasRoom(h) == \E a \in DOMAIN h : ~h[a].live

(* newBody: B->size is left as malloc returned it, here `garbage' *)
newBody(h, garbage) ==
  [heap |-> [h EXCEPT ![malloc(h)] = [live |-> TRUE, parts |-> <<>>, size |-> garbage]],
   ret |-> malloc(h)]

deleteBody(h, a) == [h EXCEPT ![a] = FreeCell]

bodyCopy_alias(h, a) == [heap |-> h, ret |-> a]

bodyCopy(h, a) ==
  [heap |-> [h EXCEPT ![malloc(h)] = bodyCopyValue(h[a])], ret |-> malloc(h)]

newRace_noCopy(h, body) == [heap |-> h, ret |-> body]

(* newRace: the RACE_DATA keeps a copy of the body it is given *)
newRace(h, body) == bodyCopy(h, body)

(* an unknown race gets the body of the default race *)
raceCreateBody_fallback(h, table, name) ==
  IF table[name] # NOBODY THEN bodyCopy(h, table[name])
  ELSE IF table["human"] # NOBODY THEN bodyCopy(h, table["human"])
  ELSE [heap |-> h, ret |-> NOBODY]

(* raceCreateBody: a copy of the template, or NULL for an unknown race *)
raceCreateBody(h, table, name) ==
  IF table[name] # NOBODY THEN bodyCopy(h, table[name])
  ELSE [heap |-> h, ret |-> NOBODY]

isRace_any(table, name) == TRUE

isRace(table, name) == table[name] # NOBODY

-----------------------------------------------------------------------------
(* The lists of body size names and position type names.  Both start as    *)
(* NULL and are filled with the built-in names by the first call that      *)
(* needs them.                                                             *)

default_bodysize ==
  << "diminuitive", "tiny", "small", "medium", "large", "huge", "gargantuan",
     "collosal" >>

default_bodypos ==
  << "floating about head", "about body", "head", "face", "ear", "neck",
     "torso", "arm", "wing", "wrist", "left hand", "right hand", "finger",
     "waist", "leg", "left foot", "right foot", "hoof", "claw",
     "tail", "held", "hands", "legs", "feet", "wings", "hooves" >>

(* for(i ...) listPut(list, strdup(arr[i])) *)
RECURSIVE PutEach(_, _, _)
PutEach(L, arr, i) ==
  IF i > Len(arr) THEN L ELSE PutEach(listPut(L, arr[i]), arr, i + 1)

(* init_body_dynamic: a list that is still NULL is created and filled *)
init_body_dynamic(sizes, types) ==
  [bodysize_list |->
     IF sizes.null
     THEN [null |-> FALSE, list |-> PutEach(<<>>, default_bodysize, 1)]
     ELSE sizes,
   bodypos_list |->
     IF types.null
     THEN [null |-> FALSE, list |-> PutEach(<<>>, default_bodypos, 1)]
     ELSE types]

(* the entries of the list that the ITERATE_LIST loops stop at *)
Existing(L, name) == {i \in 1..Len(L) : strcasecmp(L[i], name) = 0}

(* names are compared as they are spelled *)
body_add_size_caseSensitive(sizes, types, size_name) ==
  LET d == init_body_dynamic(sizes, types)
  IN  IF \E i \in 1..Len(d.bodysize_list.list) : d.bodysize_list.list[i] = size_name
      THEN [bodysize_list |-> d.bodysize_list, bodypos_list |-> d.bodypos_list,
            ret |-> FALSE]
      ELSE [bodysize_list |-> [d.bodysize_list EXCEPT !.list = listPut(@, size_name)],
            bodypos_list |-> d.bodypos_list, ret |-> TRUE]

body_add_size(sizes, types, size_name) ==
  LET d == init_body_dynamic(sizes, types)
  IN  IF Existing(d.bodysize_list.list, size_name) # {}
      THEN [bodysize_list |-> d.bodysize_list, bodypos_list |-> d.bodypos_list,
            ret |-> FALSE]
      ELSE [bodysize_list |-> [d.bodysize_list EXCEPT !.list = listPut(@, size_name)],
            bodypos_list |-> d.bodypos_list, ret |-> TRUE]

(* the first entry that compares equal is removed from the list and freed *)
body_remove_size(sizes, types, size_name) ==
  LET d == init_body_dynamic(sizes, types)
      found == Existing(d.bodysize_list.list, size_name)
  IN  IF found # {}
      THEN LET existing == d.bodysize_list.list[SetMin(found)]
           IN  [bodysize_list |->
                  [d.bodysize_list EXCEPT !.list = listRemove(@, existing)],
                bodypos_list |-> d.bodypos_list, ret |-> TRUE]
      ELSE [bodysize_list |-> d.bodysize_list, bodypos_list |-> d.bodypos_list,
            ret |-> FALSE]

body_add_position_type(sizes, types, pos_name) ==
  LET d == init_body_dynamic(sizes, types)
  IN  IF Existing(d.bodypos_list.list, pos_name) # {}
      THEN [bodysize_list |-> d.bodysize_list, bodypos_list |-> d.bodypos_list,
            ret |-> FALSE]
      ELSE [bodysize_list |-> d.bodysize_list,
            bodypos_list |-> [d.bodypos_list EXCEPT !.list = listPut(@, pos_name)],
            ret |-> TRUE]

body_remove_position_type(sizes, types, pos_name) ==
  LET d == init_body_dynamic(sizes, types)
      found == Existing(d.bodypos_list.list, pos_name)
  IN  IF found # {}
      THEN LET existing == d.bodypos_list.list[SetMin(found)]
           IN  [bodysize_list |-> d.bodysize_list,
                bodypos_list |->
                  [d.bodypos_list EXCEPT !.list = listRemove(@, existing)],
                ret |-> TRUE]
      ELSE [bodysize_list |-> d.bodysize_list, bodypos_list |-> d.bodypos_list,
            ret |-> FALSE]

(* body_get_all_sizes, body_get_all_position_types: a copy of the list *)
body_get_all_sizes(sizes, types) ==
  PutEach(<<>>, init_body_dynamic(sizes, types).bodysize_list.list, 1)

body_get_all_position_types(sizes, types) ==
  PutEach(<<>>, init_body_dynamic(sizes, types).bodypos_list.list, 1)

(* bodysizeGetName: listGet(bodysize_list, size), NULL outside the list;   *)
(* the C index counts from 0                                                *)
bodysizeGetName(sizes, types, size) ==
  LET d == init_body_dynamic(sizes, types)
  IN  [bodysize_list |-> d.bodysize_list, bodypos_list |-> d.bodypos_list,
       ret |-> IF size < 0 \/ size >= listSize(d.bodysize_list.list)
               THEN NULL
               ELSE d.bodysize_list.list[size + 1]]

(* bodysizeGetNum: the index of the first entry that compares equal,       *)
(* BODYSIZE_NONE when the loop ends without one                            *)
bodysizeGetNum(sizes, types, size) ==
  LET d == init_body_dynamic(sizes, types)
      found == Existing(d.bodysize_list.list, size)
  IN  [bodysize_list |-> d.bodysize_list, bodypos_list |-> d.bodypos_list,
       ret |-> IF found # {} THEN SetMin(found) - 1 ELSE BODYSIZE_NONE]

-----------------------------------------------------------------------------
(* The state after boot: init_races has registered "human" and newChar has *)
(* given each creature a copy of its body.  The model keeps four of the    *)
(* positions of the stock human body, in the order init_races adds them.   *)

RaceNames == {"human", "elf"}

HumanParts ==
  << newBodypart("right hand", "right hand", 2),
     newBodypart("left hand",  "left hand",  2),
     newBodypart("right ear",  "ear",        0),
     newBodypart("left ear",   "ear",        0) >>

HumanBody == [live |-> TRUE, parts |-> HumanParts, size |-> BODYSIZE_MEDIUM]

raceDefault == "human"

(* keyword lists the model passes to the equip calls *)
NameKeys == {"left hand", "RIGHT HAND", "tail"}
TypeKeys == {"ear", "EAR", "left hand", "wing"}
NameLists == SeqUpTo(NameKeys, MaxReq)
TypeLists == SeqUpTo(TypeKeys, MaxReq)

(* charStore: of what the model keeps of a creature the storage set holds  *)
(* the race; the body is not stored                                        *)
NoSet == [race |-> NULL]

charStore(race) == [race |-> race]

(* the record of a call: what was asked, what came back, the memory before *)
(* Where an item is (handler.c): an item is in a room, in a container, in  *)
(* a creature's inventory or worn by a creature, and the obj_from_ calls   *)
(* clear the field the obj_to_ calls set; objSetWearer sets the wearer.     *)
NoPlace == [room |-> NULL, container |-> NULL, carrier |-> NULL, wearer |-> NULL]

(* try_equip_ex (handler.c): without positions the item is equipped by the *)
(* position types it needs, with positions by their names under the        *)
(* layering rule; the caller makes ch the wearer when it succeeds          *)
try_equip_ex(B, obj, pos, needed, equipment_type, forced) ==
  IF pos.null
  THEN IF needed.null THEN [body |-> B, ret |-> FALSE]
       ELSE bodyEquipPostypes(B, obj, needed.keys)
  ELSE bodyEquipPosnamesEx(B, obj, pos.keys, equipment_type, forced)

(* wornGetPositions (items/worn.c): the position types a worn item needs *)
wornGetPositions(obj) == Str(<<"held">>)

Snapshot == [heap |-> heap, ch_body |-> ch_body, ch_race |-> ch_race,
             race_table |-> race_table, capsule |-> capsule, store |-> store,
             bodysize_list |-> bodysize_list, bodypos_list |-> bodypos_list,
             obj_data |-> obj_data]

NoSnapshot == [heap |-> [a \in Addrs |-> FreeCell],
               ch_body |-> [c \in Creatures |-> NOBODY],
               ch_race |-> [c \in Creatures |-> NULL],
               race_table |-> [r \in RaceNames |-> NOBODY],
               capsule |-> NOBODY,
               store |-> [c \in Creatures |-> NoSet],
               bodysize_list |-> NullList, bodypos_list |-> NullList,
               obj_data |-> [o \in Items |-> NoPlace]]

NoCall == [op |-> "none", ch |-> NULL, obj |-> NULL, pos_list |-> <<>>,
           type |-> NULL, force |-> FALSE, name |-> NULL, size |-> 0,
           pos |-> NullStr, roll |-> 0, part |-> NULL, ratio |-> Zero,
           iters |-> <<>>, list |-> NullList,
           ret |-> FALSE, addr |-> NOBODY, pre |-> NoSnapshot]

Idle == last.op = "none"

(* init_races: the stock body is built, add_race keeps a copy of it and    *)
(* the local body is never deleted; then newChar, once per creature        *)
BootLocal == [a \in Addrs |-> IF a = 1 THEN HumanBody ELSE FreeCell]
BootRace  == newRace(BootLocal, 1)
BootTable == [r \in RaceNames |-> IF r = raceDefault THEN BootRace.ret ELSE NOBODY]
BootChar1 == raceCreateBody(BootRace.heap, BootTable, raceDefault)
BootChar2 == raceCreateBody(BootChar1.heap, BootTable, raceDefault)
BootBodies == [c \in Creatures |-> IF c = "c1" THEN BootChar1.ret ELSE BootChar2.ret]

Init ==
  /\ heap = [a \in Addrs |->
               IF \/ \E c \in Creatures : BootBodies[c] = a
                  \/ \E r \in RaceNames : BootTable[r] = a
               THEN BootChar2.heap[a] ELSE FreeCell]
  /\ race_table = BootTable
  /\ ch_body = BootBodies
  /\ ch_race = [c \in Creatures |-> raceDefault]
  /\ capsule = NOBODY
  /\ store = [c \in Creatures |-> NoSet]
  /\ bodysize_list = NullList
  /\ bodypos_list = NullList
  /\ obj_data = [o \in Items |-> [NoPlace EXCEPT !.room = "room"]]
  /\ last = NoCall

(* the body a creature owns *)
charGetBody(ch) == heap[ch_body[ch]]

-----------------------------------------------------------------------------
(* The equip and unequip calls on a creature's body *)

EquipPostypes(ch, obj, pos_list) ==
  /\ Idle
  /\ ch_body[ch] # NOBODY
  /\ LET r == bodyEquipPostypes(charGetBody(ch), obj, pos_list)
     IN  /\ Worn(r.body) <= MaxWorn
         /\ heap' = [heap EXCEPT ![ch_body[ch]] = r.body]
         /\ last' = [NoCall EXCEPT !.op = "bodyEquipPostypes", !.ch = ch,
                       !.obj = obj, !.pos_list = pos_list, !.ret = r.ret,
                       !.addr = ch_body[ch], !.pre = Snapshot]
  /\ UNCHANGED <<obj_data, bodysize_list, bodypos_list, store, ch_body, ch_race, race_table, capsule>>

EquipPosnames(ch, obj, pos_list) ==
  /\ Idle
  /\ ch_body[ch] # NOBODY
  /\ LET r == bodyEquipPosnames(charGetBody(ch), obj, pos_list)
     IN  /\ Worn(r.body) <= MaxWorn
         /\ heap' = [heap EXCEPT ![ch_body[ch]] = r.body]
         /\ last' = [NoCall EXCEPT !.op = "bodyEquipPosnames", !.ch = ch,
                       !.obj = obj, !.pos_list = pos_list, !.ret = r.ret,
                       !.addr = ch_body[ch], !.pre = Snapshot]
  /\ UNCHANGED <<obj_data, bodysize_list, bodypos_list, store, ch_body, ch_race, race_table, capsule>>

EquipPosnamesEx(ch, obj, pos_list, equipment_type, force) ==
  /\ Idle
  /\ ch_body[ch] # NOBODY
  /\ LET r == bodyEquipPosnamesEx(charGetBody(ch), obj, pos_list,
                                  equipment_type, force)
     IN  /\ Worn(r.body) <= MaxWorn
         /\ heap' = [heap EXCEPT ![ch_body[ch]] = r.body]
         /\ last' = [NoCall EXCEPT !.op = "bodyEquipPosnamesEx", !.ch = ch,
                       !.obj = obj, !.pos_list = pos_list,
                       !.type = equipment_type, !.force = force, !.ret = r.ret,
                       !.addr = ch_body[ch], !.pre = Snapshot]
  /\ UNCHANGED <<obj_data, bodysize_list, bodypos_list, store, ch_body, ch_race, race_table, capsule>>

Unequip(ch, obj) ==
  /\ Idle
  /\ ch_body[ch] # NOBODY
  /\ LET r == bodyUnequip(charGetBody(ch), obj)
     IN  /\ heap' = [heap EXCEPT ![ch_body[ch]] = r.body]
         /\ last' = [NoCall EXCEPT !.op = "bodyUnequip", !.ch = ch,
                       !.obj = obj, !.ret = r.ret,
                       !.addr = ch_body[ch], !.pre = Snapshot]
  /\ UNCHANGED <<obj_data, bodysize_list, bodypos_list, store, ch_body, ch_race, race_table, capsule>>

UnequipAll(ch) ==
  /\ Idle
  /\ ch_body[ch] # NOBODY
  /\ LET r == bodyUnequipAll(charGetBody(ch))
     IN  /\ heap' = [heap EXCEPT ![ch_body[ch]] = r.body]
         /\ last' = [NoCall EXCEPT !.op = "bodyUnequipAll", !.ch = ch,
                       !.list = [null |-> FALSE, list |-> r.ret],
                       !.addr = ch_body[ch], !.pre = Snapshot]
  /\ UNCHANGED <<obj_data, bodysize_list, bodypos_list, store, ch_body, ch_race, race_table, capsule>>

(* the queries read the body and write nothing *)
GetAllEq(ch) ==
  /\ Idle
  /\ ch_body[ch] # NOBODY
  /\ last' = [NoCall EXCEPT !.op = "bodyGetAllEq", !.ch = ch,
                !.list = [null |-> FALSE, list |-> bodyGetAllEq(charGetBody(ch))],
                !.addr = ch_body[ch], !.pre = Snapshot]
  /\ UNCHANGED <<obj_data, bodysize_list, bodypos_list, store, heap, ch_body, ch_race, race_table, capsule>>

EquippedWhere(ch, obj) ==
  /\ Idle
  /\ ch_body[ch] # NOBODY
  /\ last' = [NoCall EXCEPT !.op = "bodyEquippedWhere", !.ch = ch, !.obj = obj,
                !.pos_list = bodyEquippedWhere(charGetBody(ch), obj),
                !.addr = ch_body[ch], !.pre = Snapshot]
  /\ UNCHANGED <<obj_data, bodysize_list, bodypos_list, store, heap, ch_body, ch_race, race_table, capsule>>

GetEquipment(ch, pos) ==
  /\ Idle
  /\ ch_body[ch] # NOBODY
  /\ last' = [NoCall EXCEPT !.op = "bodyGetEquipment", !.ch = ch, !.name = pos,
                !.list = bodyGetEquipment(charGetBody(ch), pos),
                !.addr = ch_body[ch], !.pre = Snapshot]
  /\ UNCHANGED <<obj_data, bodysize_list, bodypos_list, store, heap, ch_body, ch_race, race_table, capsule>>

(* bodyRandPart on a creature's body; the body is not changed *)
RandPart(ch, pos) ==
  /\ Idle
  /\ ch_body[ch] # NOBODY
  /\ LET size_sum == SizeSumFrom(charGetBody(ch), pos, 1)
     IN  \E pos_roll \in (IF size_sum <= 1 THEN {0} ELSE rand_number(1, size_sum)),
            ub \in (IF size_sum <= 1 THEN UBOutcomes ELSE {"goes on"}) :
           LET r == bodyRandPart(charGetBody(ch), pos, pos_roll, ub)
           IN  last' = [NoCall EXCEPT !.op = "bodyRandPart", !.ch = ch, !.pos = pos,
                          !.roll = pos_roll, !.part = r.ret, !.iters = r.iters,
                          !.ret = (r.ret # NULL),
                          !.addr = ch_body[ch], !.pre = Snapshot]
  /\ UNCHANGED <<obj_data, bodysize_list, bodypos_list, store, heap, ch_body, ch_race, race_table, capsule>>

(* bodyPartRatio on a creature's body (PyChar_getbodypct) *)
PartRatio(ch, pos) ==
  /\ Idle
  /\ ch_body[ch] # NOBODY
  /\ ~pos.null
  /\ last' = [NoCall EXCEPT !.op = "bodyPartRatio", !.ch = ch, !.pos = pos,
                !.ratio = bodyPartRatio(charGetBody(ch), pos), !.ret = TRUE,
                !.addr = ch_body[ch], !.pre = Snapshot]
  /\ UNCHANGED <<obj_data, bodysize_list, bodypos_list, store, heap, ch_body, ch_race, race_table, capsule>>

(* the call has returned and the game loop takes the next command: the     *)
(* record of the call is dropped.  An aborted process takes no step.       *)
Return ==
  /\ ~Idle
  /\ last.part # ABORT
  /\ last' = NoCall
  /\ UNCHANGED <<obj_data, bodysize_list, bodypos_list, store, heap, ch_body, ch_race, race_table, capsule>>

-----------------------------------------------------------------------------
(* Editing a creature's body from scripts (pychar.c) *)

AddBodypart(ch, name, type, size) ==
  /\ Idle
  /\ ch_body[ch] # NOBODY
  /\ findBodypart(charGetBody(ch), name) # NOPART
       \/ Len(charGetBody(ch).parts) < MaxParts
  /\ heap' = [heap EXCEPT ![ch_body[ch]] = bodyAddPosition(@, name, type, size)]
  /\ last' = [NoCall EXCEPT !.op = "bodyAddPosition", !.ch = ch, !.name = name,
                !.type = type, !.size = size, !.ret = TRUE,
                !.addr = ch_body[ch], !.pre = Snapshot]
  /\ UNCHANGED <<obj_data, bodysize_list, bodypos_list, store, ch_body, ch_race, race_table, capsule>>

RemoveBodypart(ch, name) ==
  /\ Idle
  /\ ch_body[ch] # NOBODY
  /\ LET r == bodyRemovePosition(charGetBody(ch), name)
     IN  /\ heap' = [heap EXCEPT ![ch_body[ch]] = r.body]
         /\ last' = [NoCall EXCEPT !.op = "bodyRemovePosition", !.ch = ch,
                       !.name = name, !.ret = r.ret,
                       !.addr = ch_body[ch], !.pre = Snapshot]
  /\ UNCHANGED <<obj_data, bodysize_list, bodypos_list, store, ch_body, ch_race, race_table, capsule>>

SetBodySize(ch, size) ==
  /\ Idle
  /\ ch_body[ch] # NOBODY
  /\ heap' = [heap EXCEPT ![ch_body[ch]] = bodySetSize(@, size)]
  /\ last' = [NoCall EXCEPT !.op = "bodySetSize", !.ch = ch, !.size = size,
                !.ret = TRUE, !.addr = ch_body[ch], !.pre = Snapshot]
  /\ UNCHANGED <<obj_data, bodysize_list, bodypos_list, store, ch_body, ch_race, race_table, capsule>>

(* charSetBody: the old body is deleted, the new one installed *)
charSetBody(h, old, new) == IF old # NOBODY THEN deleteBody(h, old) ELSE h

(* charResetBody: charSetBody(ch, raceCreateBody(ch->race)) *)
ResetBody(ch) ==
  /\ Idle
  /\ HasRoom(heap)
  /\ LET r == raceCreateBody(heap, race_table, ch_race[ch])
     IN  /\ heap' = charSetBody(r.heap, ch_body[ch], r.ret)
         /\ ch_body' = [ch_body EXCEPT ![ch] = r.ret]
         /\ last' = [NoCall EXCEPT !.op = "charResetBody", !.ch = ch,
                       !.ret = TRUE, !.addr = r.ret, !.pre = Snapshot]
  /\ UNCHANGED <<obj_data, bodysize_list, bodypos_list, store, ch_race, race_table, capsule>>

(* charCopyTo: the target gets the race of the source and a copy of its body *)
(* When the source has no body, bodyCopy(NULL) reads B->parts through the   *)
(* null pointer after charSetRace has been done: the process ends there.    *)
CharCopyTo(from, to) ==
  /\ Idle
  /\ from # to
  /\ HasRoom(heap)
  /\ IF ch_body[from] # NOBODY
     THEN LET r == bodyCopy(heap, ch_body[from])
          IN  /\ heap' = charSetBody(r.heap, ch_body[to], r.ret)
              /\ ch_body' = [ch_body EXCEPT ![to] = r.ret]
              /\ ch_race' = [ch_race EXCEPT ![to] = ch_race[from]]
              /\ last' = [NoCall EXCEPT !.op = "charCopyTo", !.ch = to,
                            !.name = from, !.ret = TRUE, !.addr = r.ret,
                            !.pre = Snapshot]
     ELSE /\ UNCHANGED <<heap, ch_body>>
          /\ ch_race' = [ch_race EXCEPT ![to] = ch_race[from]]
          /\ last' = [NoCall EXCEPT !.op = "charCopyTo", !.ch = to,
                        !.name = from, !.part = ABORT, !.addr = ch_body[to],
                        !.pre = Snapshot]
  /\ UNCHANGED <<obj_data, bodysize_list, bodypos_list, store, race_table, capsule>>

-----------------------------------------------------------------------------
(* Saving a creature and reading it back (character.c) *)

(* newChar: the default race and a body of it *)
newChar(h, table) ==
  LET r == raceCreateBody(h, table, raceDefault)
  IN  [heap |-> r.heap, race |-> raceDefault, body |-> r.ret]

(* charRead: newMobile, the race of the set or, if that is no race, the    *)
(* default race, then charResetBody                                        *)
charRead(h, table, set) ==
  LET mob  == newChar(h, table)
      race == IF isRace(table, set.race) THEN set.race ELSE raceDefault
      r    == raceCreateBody(mob.heap, table, race)
  IN  [heap |-> charSetBody(r.heap, mob.body, r.ret), race |-> race, body |-> r.ret]

(* deleteChar: the body goes with the creature *)
deleteChar(h, body) == IF body # NOBODY THEN deleteBody(h, body) ELSE h

CharStore(ch) ==
  /\ Idle
  /\ store' = [store EXCEPT ![ch] = charStore(ch_race[ch])]
  /\ last' = [NoCall EXCEPT !.op = "charStore", !.ch = ch, !.ret = TRUE,
                !.addr = ch_body[ch], !.pre = Snapshot]
  /\ UNCHANGED <<obj_data, bodysize_list, bodypos_list, heap, ch_body, ch_race, race_table, capsule>>

(* the creature is extracted from the game (deleteChar) and read back from *)
(* its storage set                                                         *)
CharLoad(ch) ==
  /\ Idle
  /\ store[ch] # NoSet
  /\ LET h == deleteChar(heap, ch_body[ch])
     IN  /\ Cardinality({a \in Addrs : ~h[a].live}) >= 2
         /\ LET mob == charRead(h, race_table, store[ch])
            IN  /\ heap' = mob.heap
                /\ ch_body' = [ch_body EXCEPT ![ch] = mob.body]
                /\ ch_race' = [ch_race EXCEPT ![ch] = mob.race]
                /\ last' = [NoCall EXCEPT !.op = "charRead", !.ch = ch,
                              !.ret = TRUE, !.addr = mob.body, !.pre = Snapshot]
  /\ UNCHANGED <<obj_data, bodysize_list, bodypos_list, race_table, capsule, store>>

-----------------------------------------------------------------------------
(* A body held by a script or module, and the race table (pyworld.c, races.c) *)

(* a body nothing points to any more has leaked: the model takes its cell back *)
Reclaim(h, bodies, table, cap) ==
  [a \in DOMAIN h |->
     IF \/ a = cap
        \/ \E c \in Creatures : bodies[c] = a
        \/ \E r \in RaceNames : table[r] = a
     THEN h[a] ELSE FreeCell]

CapsuleNew(garbage) ==
  /\ Idle
  /\ capsule = NOBODY
  /\ HasRoom(heap)
  /\ LET r == newBody(heap, garbage)
     IN  /\ heap' = r.heap
         /\ capsule' = r.ret
         /\ last' = [NoCall EXCEPT !.op = "newBody", !.ret = TRUE,
                       !.addr = r.ret, !.pre = Snapshot]
  /\ UNCHANGED <<obj_data, bodysize_list, bodypos_list, store, ch_body, ch_race, race_table>>

CapsuleAddPosition(name, type, size) ==
  /\ Idle
  /\ capsule # NOBODY
  /\ findBodypart(heap[capsule], name) # NOPART
       \/ Len(heap[capsule].parts) < MaxParts
  /\ heap' = [heap EXCEPT ![capsule] = bodyAddPosition(@, name, type, size)]
  /\ last' = [NoCall EXCEPT !.op = "bodyAddPosition", !.name = name,
                !.type = type, !.size = size, !.ret = TRUE,
                !.addr = capsule, !.pre = Snapshot]
  /\ UNCHANGED <<obj_data, bodysize_list, bodypos_list, store, ch_body, ch_race, race_table, capsule>>

CapsuleRemovePosition(name) ==
  /\ Idle
  /\ capsule # NOBODY
  /\ LET r == bodyRemovePosition(heap[capsule], name)
     IN  /\ heap' = [heap EXCEPT ![capsule] = r.body]
         /\ last' = [NoCall EXCEPT !.op = "bodyRemovePosition", !.name = name,
                       !.ret = r.ret, !.addr = capsule, !.pre = Snapshot]
  /\ UNCHANGED <<obj_data, bodysize_list, bodypos_list, store, ch_body, ch_race, race_table, capsule>>

CapsuleSetSize(size) ==
  /\ Idle
  /\ capsule # NOBODY
  /\ heap' = [heap EXCEPT ![capsule] = bodySetSize(@, size)]
  /\ last' = [NoCall EXCEPT !.op = "bodySetSize", !.size = size, !.ret = TRUE,
                !.addr = capsule, !.pre = Snapshot]
  /\ UNCHANGED <<obj_data, bodysize_list, bodypos_list, store, ch_body, ch_race, race_table, capsule>>

(* add_race(name, abbrev, body, pc_ok) called with the held body:          *)
(* hashPut(race_table, name, newRace(name, abbrev, body, pc_ok))           *)
AddRace(name) ==
  /\ Idle
  /\ capsule # NOBODY
  /\ HasRoom(heap)
  /\ LET r == newRace(heap, capsule)
         t == [race_table EXCEPT ![name] = r.ret]
     IN  /\ race_table' = t
         /\ heap' = Reclaim(r.heap, ch_body, t, capsule)
         /\ last' = [NoCall EXCEPT !.op = "add_race", !.name = name,
                       !.ret = TRUE, !.addr = r.ret, !.pre = Snapshot]
  /\ UNCHANGED <<obj_data, bodysize_list, bodypos_list, store, ch_body, ch_race, capsule>>

(* pyworld_add_race with a body capsule: body = bodyCopy(body), then add_race *)
PyAddRace(name) ==
  /\ Idle
  /\ capsule # NOBODY
  /\ HasRoom(heap)
  /\ LET c == bodyCopy(heap, capsule)
     IN  /\ HasRoom(c.heap)
         /\ LET r == newRace(c.heap, c.ret)
                t == [race_table EXCEPT ![name] = r.ret]
            IN  /\ race_table' = t
                /\ heap' = Reclaim(r.heap, ch_body, t, capsule)
                /\ last' = [NoCall EXCEPT !.op = "pyworld_add_race", !.name = name,
                              !.ret = TRUE, !.addr = r.ret, !.pre = Snapshot]
  /\ UNCHANGED <<obj_data, bodysize_list, bodypos_list, store, ch_body, ch_race, capsule>>

(* remove_race: hashRemove, then the template is deleted *)
RemoveRace(name) ==
  /\ Idle
  /\ IF race_table[name] # NOBODY
     THEN /\ heap' = deleteBody(heap, race_table[name])
          /\ race_table' = [race_table EXCEPT ![name] = NOBODY]
     ELSE UNCHANGED <<heap, race_table>>
  /\ last' = [NoCall EXCEPT !.op = "remove_race", !.name = name,
                !.ret = (race_table[name] # NOBODY),
                !.addr = race_table[name], !.pre = Snapshot]
  /\ UNCHANGED <<obj_data, bodysize_list, bodypos_list, store, ch_body, ch_race, capsule>>

(* PyChar_setrace: an unknown race is refused, else the race is set and the *)
(* body reset                                                               *)
SetRace(ch, race) ==
  /\ Idle
  /\ HasRoom(heap)
  /\ IF ~isRace(race_table, race)
     THEN /\ UNCHANGED <<heap, ch_body, ch_race>>
          /\ last' = [NoCall EXCEPT !.op = "PyChar_setrace", !.ch = ch,
                        !.name = race, !.ret = FALSE, !.addr = ch_body[ch],
                        !.pre = Snapshot]
     ELSE LET r == raceCreateBody(heap, race_table, race)
          IN  /\ heap' = charSetBody(r.heap, ch_body[ch], r.ret)
              /\ ch_body' = [ch_body EXCEPT ![ch] = r.ret]
              /\ ch_race' = [ch_race EXCEPT ![ch] = race]
              /\ last' = [NoCall EXCEPT !.op = "PyChar_setrace", !.ch = ch,
                            !.name = race, !.ret = TRUE, !.addr = r.ret,
                            !.pre = Snapshot]
  /\ UNCHANGED <<obj_data, bodysize_list, bodypos_list, store, race_table, capsule>>

(* bodyEquipPosnames called on the held body *)
CapsuleEquip(obj, pos_list) ==
  /\ Idle
  /\ capsule # NOBODY
  /\ LET r == bodyEquipPosnames(heap[capsule], obj, pos_list)
     IN  /\ Worn(r.body) <= MaxWorn
         /\ heap' = [heap EXCEPT ![capsule] = r.body]
         /\ last' = [NoCall EXCEPT !.op = "bodyEquipPosnames", !.obj = obj,
                       !.pos_list = pos_list, !.ret = r.ret,
                       !.addr = capsule, !.pre = Snapshot]
  /\ UNCHANGED <<obj_data, bodysize_list, bodypos_list, store, ch_body, ch_race, race_table, capsule>>

-----------------------------------------------------------------------------
(* Specifications of the equip engine, one per entry point, on the body of *)
(* creature c1                                                             *)

NextTypes ==
  \/ \E obj \in Items, pos_list \in TypeLists : EquipPostypes("c1", obj, pos_list)
  \/ \E obj \in Items : Unequip("c1", obj)
  \/ Return

SpecTypes == Init /\ [][NextTypes]_vars

NextNames ==
  \/ \E obj \in Items, pos_list \in NameLists : EquipPosnames("c1", obj, pos_list)
  \/ \E obj \in Items : Unequip("c1", obj)
  \/ Return

SpecNames == Init /\ [][NextNames]_vars

NextEx ==
  \/ \E obj \in Items, pos_list \in NameLists,
        equipment_type \in Classes \cup {NULL}, force \in BOOLEAN :
        EquipPosnamesEx("c1", obj, pos_list, equipment_type, force)
  \/ \E obj \in Items : Unequip("c1", obj)
  \/ Return

SpecEx == Init /\ [][NextEx]_vars

(* the three ways to equip, the two ways to take off, and the queries *)
QueryLists == {<<>>, <<"left hand">>, <<"RIGHT HAND", "left hand">>, <<"tail">>}

NextQueries ==
  \/ \E obj \in Items, pos_list \in {<<>>, <<"ear", "EAR">>} :
       EquipPostypes("c1", obj, pos_list)
  \/ \E obj \in Items, pos_list \in QueryLists : EquipPosnames("c1", obj, pos_list)
  \/ \E obj \in Items, pos_list \in QueryLists, force \in BOOLEAN :
       EquipPosnamesEx("c1", obj, pos_list, NULL, force)
  \/ \E obj \in Items : Unequip("c1", obj)
  \/ UnequipAll("c1")
  \/ GetAllEq("c1")
  \/ \E obj \in Items : EquippedWhere("c1", obj)
  \/ \E pos \in {"Left Hand", "right ear", "tail"} : GetEquipment("c1", pos)
  \/ \E name \in {"Left Hand", "tail"} : RemoveBodypart("c1", name)
  \/ Return

SpecQueries == Init /\ [][NextQueries]_vars

(* a body used without bodyEquipPosnamesEx: equipped by types and by names, *)
(* stripped, and its parts added, updated and removed                       *)
NextExclusive ==
  \/ \E obj \in Items,
        pos_list \in {<<"ear">>, <<"ear", "EAR">>, <<"left hand", "wing">>} :
       EquipPostypes("c1", obj, pos_list)
  \/ \E obj \in Items,
        pos_list \in {<<"left hand">>, <<"RIGHT HAND", "RIGHT HAND">>,
                      <<"left hand", "tail">>, <<"tail">>} :
       EquipPosnames("c1", obj, pos_list)
  \/ \E obj \in Items : Unequip("c1", obj)
  \/ UnequipAll("c1")
  \/ AddBodypart("c1", "tail", "tail", 3)
  \/ AddBodypart("c1", "Left Hand", "ear", 1)
  \/ \E name \in {"tail", "right ear"} : RemoveBodypart("c1", name)
  \/ Return

SpecExclusive == Init /\ [][NextExclusive]_vars

-----------------------------------------------------------------------------
(* Specifications of bodies in memory *)

BODYSIZE_LARGE == 4

(* what malloc may have left in the size of a new body *)
GarbageSizes == {BODYSIZE_NONE, BODYSIZE_LARGE}

(* two creatures of one race, each editing and equipping its own body *)
NextIsolation ==
  \/ \E ch \in Creatures, name \in {"tail", "Left Hand"}, size \in {3} :
       AddBodypart(ch, name, "tail", size)
  \/ \E ch \in Creatures : RemoveBodypart(ch, "tail")
  \/ \E ch \in Creatures : SetBodySize(ch, BODYSIZE_LARGE)
  \/ \E ch \in Creatures : EquipPosnames(ch, "A", <<"left hand">>)
  \/ \E ch \in Creatures : Unequip(ch, "A")
  \/ \E ch \in Creatures : ResetBody(ch)
  \/ Return

SpecIsolation == Init /\ [][NextIsolation]_vars

(* a held body is edited, registered as the race "elf" and edited again;  *)
(* creature c1 takes the bodies the race table hands out                   *)
NextRegister ==
  \/ \E garbage \in GarbageSizes : CapsuleNew(garbage)
  \/ \E size \in {-1, 3} : CapsuleAddPosition("tail", "tail", size)
  \/ CapsuleRemovePosition("Tail")
  \/ CapsuleSetSize(BODYSIZE_LARGE)
  \/ CapsuleEquip("A", <<"tail">>)
  \/ AddRace("elf")
  \/ PyAddRace("elf")
  \/ RemoveRace("elf")
  \/ \E race \in RaceNames : SetRace("c1", race)
  \/ ResetBody("c1")
  \/ Return

SpecRegister == Init /\ [][NextRegister]_vars

(* one creature's body is edited and equipped, and creatures are copied *)
NextCrud ==
  \/ \E name \in {"tail", "Tail"}, size \in {-1, 3} :
       AddBodypart("c1", name, "tail", size)
  \/ \E name \in {"Tail", "left hand"} : RemoveBodypart("c1", name)
  \/ SetBodySize("c1", BODYSIZE_LARGE)
  \/ \E pos_list \in {<<"left hand">>, <<"tail">>} : EquipPosnames("c1", "A", pos_list)
  \/ Unequip("c1", "A")
  \/ CharCopyTo("c1", "c2")
  \/ Return

SpecCrud == Init /\ [][NextCrud]_vars

(* the parts of one creature are added and updated with any weight, while  *)
(* they hold items                                                         *)
NextUpsert ==
  \/ \E name \in {"tail", "Tail", "Left Hand"}, type \in {"tail", "wing"},
        size \in {-1, 0, 3} : AddBodypart("c1", name, type, size)
  \/ \E name \in {"Tail", "right ear"} : RemoveBodypart("c1", name)
  \/ \E pos_list \in {<<"left hand">>, <<"tail">>} : EquipPosnames("c1", "A", pos_list)
  \/ Unequip("c1", "A")
  \/ Return

SpecUpsert == Init /\ [][NextUpsert]_vars

(* the keyword filters given to the sampler *)
Filters ==
  { NullStr, Str(<<>>), Str(<<"left hand", "RIGHT HAND">>), Str(<<"tail">>),
    Str(<<"left ear">>), Str(<<"torso", "left ear">>) }

(* a creature's body is rebuilt part by part and sampled *)
NextSampler ==
  \/ AddBodypart("c1", "torso", "torso", 50)
  \/ \E name \in {"left arm", "right arm"} : AddBodypart("c1", name, "arm", 7)
  \/ \E size \in {-1, 0, 1} : AddBodypart("c1", "Left Hand", "left hand", size)
  \/ \E name \in {"RIGHT HAND", "right ear", "left ear"} : RemoveBodypart("c1", name)
  \/ EquipPosnames("c1", "A", <<"left hand">>)
  \/ \E pos \in Filters : RandPart("c1", pos)
  \/ \E pos \in Filters : PartRatio("c1", pos)
  \/ Return

SpecSampler == Init /\ [][NextSampler]_vars

(* a creature's body is edited and equipped, races come and go, and the    *)
(* creature is saved and read back                                         *)
NextPersist ==
  \/ AddBodypart("c1", "tail", "tail", 3)
  \/ AddBodypart("c1", "Left Hand", "left hand", 0)
  \/ RemoveBodypart("c1", "left ear")
  \/ EquipPosnames("c1", "A", <<"left hand">>)
  \/ CapsuleNew(BODYSIZE_LARGE)
  \/ CapsuleAddPosition("wing", "wing", 3)
  \/ AddRace("elf")
  \/ \E name \in RaceNames : RemoveRace(name)
  \/ \E race \in RaceNames : SetRace("c1", race)
  \/ CharStore("c1")
  \/ CharLoad("c1")
  \/ Return

SpecPersist == Init /\ [][NextPersist]_vars

(* races are registered and removed while creatures take and reset bodies *)
NextRaces ==
  \/ CapsuleNew(BODYSIZE_LARGE)
  \/ CapsuleAddPosition("wing", "wing", 3)
  \/ AddRace("elf")
  \/ \E name \in RaceNames : RemoveRace(name)
  \/ \E ch \in Creatures, race \in RaceNames : SetRace(ch, race)
  \/ \E ch \in Creatures : ResetBody(ch)
  \/ Return

SpecRaces == Init /\ [][NextRaces]_vars

(* two creatures: the first customises its body, either is copied onto the *)
(* other, both go on changing their bodies, and bodies are reset while     *)
(* races may have been removed                                             *)
NextCopy ==
  \/ AddBodypart("c1", "tail", "tail", 3)
  \/ AddBodypart("c1", "Left Hand", "left hand", 5)
  \/ \E ch \in Creatures : RemoveBodypart(ch, "tail")
  \/ \E ch \in Creatures : SetBodySize(ch, BODYSIZE_LARGE)
  \/ \E ch \in Creatures : EquipPosnames(ch, "A", <<"left hand">>)
  \/ \E from, to \in Creatures : CharCopyTo(from, to)
  \/ RemoveRace("human")
  \/ \E ch \in Creatures : ResetBody(ch)
  \/ Return

SpecCopy == Init /\ [][NextCopy]_vars

-----------------------------------------------------------------------------
(* The registries as scripts and modules use them (pyworld.c) *)

BodyAddSize(size_name) ==
  /\ Idle
  /\ LET r == body_add_size(bodysize_list, bodypos_list, size_name)
     IN  /\ bodysize_list' = r.bodysize_list
         /\ bodypos_list' = r.bodypos_list
         /\ last' = [NoCall EXCEPT !.op = "body_add_size", !.name = size_name,
                       !.ret = r.ret, !.pre = Snapshot]
  /\ UNCHANGED <<obj_data, store, heap, ch_body, ch_race, race_table, capsule>>

BodyRemoveSize(size_name) ==
  /\ Idle
  /\ LET r == body_remove_size(bodysize_list, bodypos_list, size_name)
     IN  /\ bodysize_list' = r.bodysize_list
         /\ bodypos_list' = r.bodypos_list
         /\ last' = [NoCall EXCEPT !.op = "body_remove_size", !.name = size_name,
                       !.ret = r.ret, !.pre = Snapshot]
  /\ UNCHANGED <<obj_data, store, heap, ch_body, ch_race, race_table, capsule>>

BodyAddPositionType(pos_name) ==
  /\ Idle
  /\ LET r == body_add_position_type(bodysize_list, bodypos_list, pos_name)
     IN  /\ bodysize_list' = r.bodysize_list
         /\ bodypos_list' = r.bodypos_list
         /\ last' = [NoCall EXCEPT !.op = "body_add_position_type",
                       !.name = pos_name, !.ret = r.ret, !.pre = Snapshot]
  /\ UNCHANGED <<obj_data, store, heap, ch_body, ch_race, race_table, capsule>>

BodyRemovePositionType(pos_name) ==
  /\ Idle
  /\ LET r == body_remove_position_type(bodysize_list, bodypos_list, pos_name)
     IN  /\ bodysize_list' = r.bodysize_list
         /\ bodypos_list' = r.bodypos_list
         /\ last' = [NoCall EXCEPT !.op = "body_remove_position_type",
                       !.name = pos_name, !.ret = r.ret, !.pre = Snapshot]
  /\ UNCHANGED <<obj_data, store, heap, ch_body, ch_race, race_table, capsule>>

(* PyChar_setbodysize: the name is looked up and the index it has now is   *)
(* stored in the body; an unknown name and a creature without a body are   *)
(* errors that change nothing                                              *)
PyChar_setbodysize(ch, sz_name) ==
  /\ Idle
  /\ LET r == bodysizeGetNum(bodysize_list, bodypos_list, sz_name)
         ok == r.ret # BODYSIZE_NONE /\ ch_body[ch] # NOBODY
     IN  /\ bodysize_list' = r.bodysize_list
         /\ bodypos_list' = r.bodypos_list
         /\ heap' = IF ok
                    THEN [heap EXCEPT ![ch_body[ch]] = bodySetSize(@, r.ret)]
                    ELSE heap
         /\ last' = [NoCall EXCEPT !.op = "PyChar_setbodysize", !.ch = ch,
                       !.name = sz_name, !.size = r.ret, !.ret = ok,
                       !.addr = ch_body[ch], !.pre = Snapshot]
  /\ UNCHANGED <<obj_data, store, ch_body, ch_race, race_table, capsule>>

(* PyChar_getbodysize: the name the registry has now at the stored index *)
PyChar_getbodysize(ch) ==
  /\ Idle
  /\ ch_body[ch] # NOBODY
  /\ LET r == bodysizeGetName(bodysize_list, bodypos_list, heap[ch_body[ch]].size)
     IN  /\ bodysize_list' = r.bodysize_list
         /\ bodypos_list' = r.bodypos_list
         /\ last' = [NoCall EXCEPT !.op = "PyChar_getbodysize", !.ch = ch,
                       !.name = r.ret, !.size = heap[ch_body[ch]].size,
                       !.ret = r.ret # NULL, !.addr = ch_body[ch],
                       !.pre = Snapshot]
  /\ UNCHANGED <<obj_data, store, heap, ch_body, ch_race, race_table, capsule>>

SizeLabels == {"medium", "MEDIUM", "titanic", "Titanic"}
TypeLabels == {"head", "HEAD", "tentacle"}

NextRegistries ==
  \/ \E size_name \in SizeLabels : BodyAddSize(size_name)
  \/ \E size_name \in SizeLabels : BodyRemoveSize(size_name)
  \/ \E pos_name \in TypeLabels : BodyAddPositionType(pos_name)
  \/ \E pos_name \in TypeLabels : BodyRemovePositionType(pos_name)
  \/ Return

SpecRegistries == Init /\ [][NextRegistries]_vars

-----------------------------------------------------------------------------
(* Items moving between rooms, containers and creatures, and the equip     *)
(* method of scripts (pychar.c)                                            *)

(* an item that nobody wears is taken from where it is and put in a room,  *)
(* in a container or in a creature's inventory                             *)
Taken(o) == [o EXCEPT !.room = NULL, !.container = NULL, !.carrier = NULL]

ObjToRoom(obj, room) ==
  /\ Idle
  /\ obj_data[obj].wearer = NULL
  /\ obj_data[obj].room # room
  /\ obj_data' = [obj_data EXCEPT ![obj] = [Taken(@) EXCEPT !.room = room]]
  /\ last' = [NoCall EXCEPT !.op = "obj_to_room", !.obj = obj, !.name = room,
                !.ret = TRUE, !.pre = Snapshot]
  /\ UNCHANGED <<bodysize_list, bodypos_list, store, heap, ch_body, ch_race,
                 race_table, capsule>>

ObjToObj(obj, cont) ==
  /\ Idle
  /\ obj # cont
  /\ obj_data[obj].wearer = NULL
  /\ obj_data[obj].container # cont
  /\ obj_data' = [obj_data EXCEPT ![obj] = [Taken(@) EXCEPT !.container = cont]]
  /\ last' = [NoCall EXCEPT !.op = "obj_to_obj", !.obj = obj, !.name = cont,
                !.ret = TRUE, !.pre = Snapshot]
  /\ UNCHANGED <<bodysize_list, bodypos_list, store, heap, ch_body, ch_race,
                 race_table, capsule>>

ObjToChar(obj, ch) ==
  /\ Idle
  /\ obj_data[obj].wearer = NULL
  /\ obj_data[obj].carrier # ch
  /\ obj_data' = [obj_data EXCEPT ![obj] = [Taken(@) EXCEPT !.carrier = ch]]
  /\ last' = [NoCall EXCEPT !.op = "obj_to_char", !.obj = obj, !.ch = ch,
                !.ret = TRUE, !.pre = Snapshot]
  /\ UNCHANGED <<bodysize_list, bodypos_list, store, heap, ch_body, ch_race,
                 race_table, capsule>>

(* PyChar_equip: the item is taken from where it is (obj_from_room,         *)
(* obj_from_obj, obj_from_char; try_unequip, which is bodyUnequip on the   *)
(* wearer's body), try_equip_ex is tried on ch, and when that fails, or is not tried, the  *)
(* item goes back: to the room, else the container, else the carrier, else *)
(* try_equip_ex(ch, obj, old_pos, ...).  A body that is NULL is read       *)
(* through the null pointer and the process ends there.                    *)
PyChar_equip(ch, obj, pos, forced, type) ==
  /\ Idle
  /\ LET equipment_type == IF type = NULL THEN "worn" ELSE type
         o0 == obj_data[obj]
         old_room    == o0.room
         o1 == IF old_room # NULL THEN [o0 EXCEPT !.room = NULL] ELSE o0
         old_cont    == o1.container
         o2 == IF old_cont # NULL THEN [o1 EXCEPT !.container = NULL] ELSE o1
         old_carrier == o2.carrier
         o3 == IF old_carrier # NULL THEN [o2 EXCEPT !.carrier = NULL] ELSE o2
         old_wearer  == o3.wearer
         worn_before == old_wearer # NULL
         old_pos == IF worn_before
                    THEN Str(bodyEquippedWhere(heap[ch_body[old_wearer]], obj))
                    ELSE NullStr
         u  == IF worn_before THEN bodyUnequip(heap[ch_body[old_wearer]], obj)
               ELSE [body |-> HumanBody, ret |-> FALSE]
         h1 == IF worn_before THEN [heap EXCEPT ![ch_body[old_wearer]] = u.body]
               ELSE heap
         o4 == IF worn_before /\ u.ret THEN [o3 EXCEPT !.wearer = NULL] ELSE o3
         needed == IF objIsType(obj, "worn") THEN wornGetPositions(obj) ELSE NullStr
         can_equip_type  == objIsType(obj, equipment_type)
         should_try_equip == forced \/ objIsType(obj, "worn") \/ can_equip_type
         t  == IF should_try_equip
               THEN try_equip_ex(h1[ch_body[ch]], obj, pos, needed,
                                 equipment_type, forced)
               ELSE [body |-> h1[ch_body[ch]], ret |-> FALSE]
         h2 == IF should_try_equip THEN [h1 EXCEPT ![ch_body[ch]] = t.body] ELSE h1
         again == old_room = NULL /\ old_cont = NULL /\ old_carrier = NULL
                  /\ worn_before
         re == IF again
               THEN try_equip_ex(h2[ch_body[ch]], obj, old_pos, NullStr,
                                 equipment_type, forced)
               ELSE [body |-> h2[ch_body[ch]], ret |-> FALSE]
         h3 == IF again THEN [h2 EXCEPT ![ch_body[ch]] = re.body] ELSE h2
         back == IF old_room # NULL THEN [o4 EXCEPT !.room = old_room]
                 ELSE IF old_cont # NULL THEN [o4 EXCEPT !.container = old_cont]
                 ELSE IF old_carrier # NULL THEN [o4 EXCEPT !.carrier = old_carrier]
                 ELSE IF worn_before /\ re.ret THEN [o4 EXCEPT !.wearer = ch]
                 ELSE o4
     IN  IF worn_before /\ ch_body[old_wearer] = NOBODY
         THEN /\ obj_data' = [obj_data EXCEPT ![obj] = o3]
              /\ heap' = heap
              /\ last' = [NoCall EXCEPT !.op = "PyChar_equip", !.ch = ch,
                            !.obj = obj, !.pos = pos, !.type = type,
                            !.force = forced, !.part = ABORT,
                            !.addr = ch_body[ch], !.pre = Snapshot]
         ELSE IF (should_try_equip \/ again) /\ ch_body[ch] = NOBODY
         THEN /\ obj_data' = [obj_data EXCEPT ![obj] = o4]
              /\ heap' = h1
              /\ last' = [NoCall EXCEPT !.op = "PyChar_equip", !.ch = ch,
                            !.obj = obj, !.pos = pos, !.type = type,
                            !.force = forced, !.part = ABORT,
                            !.addr = ch_body[ch], !.pre = Snapshot]
         ELSE IF should_try_equip /\ t.ret
         THEN /\ Worn(t.body) <= MaxWorn
              /\ obj_data' = [obj_data EXCEPT ![obj] = [o4 EXCEPT !.wearer = ch]]
              /\ heap' = h2
              /\ last' = [NoCall EXCEPT !.op = "PyChar_equip", !.ch = ch,
                            !.obj = obj, !.pos = pos, !.type = type,
                            !.force = forced, !.ret = TRUE,
                            !.addr = ch_body[ch], !.pre = Snapshot]
         ELSE /\ ch_body[ch] # NOBODY => Worn(h3[ch_body[ch]]) <= MaxWorn
              /\ obj_data' = [obj_data EXCEPT ![obj] = back]
              /\ heap' = h3
              /\ last' = [NoCall EXCEPT !.op = "PyChar_equip", !.ch = ch,
                            !.obj = obj, !.pos = pos, !.type = type,
                            !.force = forced, !.ret = FALSE,
                            !.addr = ch_body[ch], !.pre = Snapshot]
  /\ UNCHANGED <<bodysize_list, bodypos_list, store, ch_body, ch_race,
                 race_table, capsule>>

EquipPositions == {NullStr, Str(<<"left hand">>), Str(<<"left hand", "tail">>)}

NextScript ==
  \/ ObjToRoom("A", "room")
  \/ ObjToObj("A", "C")
  \/ ObjToChar("A", "c1")
  \/ \E ch \in Creatures, obj \in {"A", "B"}, pos \in EquipPositions,
        forced \in BOOLEAN, type \in {NULL, "armor"} :
        PyChar_equip(ch, obj, pos, forced, type)
  \/ Return

SpecScript == Init /\ [][NextScript]_vars

(* creatures take their size from a name while names come and go *)
SizeNames == {"tiny", "large", "LARGE", "titanic"}

NextSizes ==
  \/ \E size_name \in SizeNames : BodyAddSize(size_name)
  \/ \E size_name \in SizeNames : BodyRemoveSize(size_name)
  \/ \E ch \in Creatures, sz_name \in SizeNames : PyChar_setbodysize(ch, sz_name)
  \/ \E ch \in Creatures : PyChar_getbodysize(ch)
  \/ Return

SpecSizes == Init /\ [][NextSizes]_vars

Next ==
  \/ NextPersist
  \/ NextRaces
  \/ NextCopy
  \/ NextRegistries
  \/ NextScript
  \/ NextSizes
  \/ NextSampler
  \/ NextUpsert
  \/ NextTypes
  \/ NextNames
  \/ NextEx
  \/ NextQueries
  \/ NextExclusive
  \/ NextIsolation
  \/ NextRegister
  \/ NextCrud

Spec == Init /\ [][Next]_vars

-----------------------------------------------------------------------------
(* Properties of the equip engine *)

(* the body the last call worked on, before and after the call *)
PreBody  == last.pre.heap[last.addr]
PostBody == heap[last.addr]

(* the parts of B whose name is pos, compared without case *)
PartsNamed(B, pos) == {i \in 1..Len(B.parts) : Lower(B.parts[i].name) = Lower(pos)}

(* no keyword of the list denotes the same name as an earlier one *)
NoRepeat(pos_list) ==
  \A i, j \in 1..Len(pos_list) : i < j => Lower(pos_list[i]) # Lower(pos_list[j])

(* the parts of B that some keyword of the list names *)
Requested(B, pos_list) ==
  UNION {PartsNamed(B, pos_list[i]) : i \in 1..Len(pos_list)}

(* post is pre with one obj put in, the others in their old order *)
InsertedOne(pre, post, obj) ==
  \E k \in 1..Len(post) :
    /\ post[k] = obj
    /\ SubSeq(post, 1, k - 1) \o SubSeq(post, k + 1, Len(post)) = pre

(* obj has joined the occupants of exactly the parts in S *)
AddedExactlyTo(S, obj) ==
  /\ Len(PostBody.parts) = Len(PreBody.parts)
  /\ PostBody.size = PreBody.size
  /\ \A i \in 1..Len(PreBody.parts) :
       /\ PostBody.parts[i].name = PreBody.parts[i].name
       /\ PostBody.parts[i].type = PreBody.parts[i].type
       /\ PostBody.parts[i].size = PreBody.parts[i].size
       /\ IF i \in S
          THEN InsertedOne(PreBody.parts[i].equipment,
                           PostBody.parts[i].equipment, obj)
          ELSE PostBody.parts[i].equipment = PreBody.parts[i].equipment

(* C1: when bodyEquipPosnames returns failure, every part's occupant list  *)
(* is what it was before the call.                                         *)
C1_PosnamesAllOrNothing ==
  (last.op = "bodyEquipPosnames" /\ ~last.ret) => PostBody = PreBody

(* C2: when bodyEquipPosnamesEx returns failure, no part's occupant list   *)
(* has changed.                                                            *)
C2_PosnamesExAllOrNothing ==
  (last.op = "bodyEquipPosnamesEx" /\ ~last.ret) => PostBody = PreBody

(* C3: when bodyEquipPostypes returns failure, every part's occupant list  *)
(* equals its value before the call, the tentatively staged parts and the  *)
(* parts that already held the item included.                              *)
C3_PostypesRollsBack ==
  (last.op = "bodyEquipPostypes" /\ ~last.ret) => PostBody = PreBody

(* a failed call that had staged a part, on a body that already wore the   *)
(* item elsewhere                                                          *)
C3_Witness ==
  /\ last.op = "bodyEquipPostypes"
  /\ ~last.ret
  /\ Len(last.pos_list) = 2
  /\ findFreeBodypart(PreBody, last.pos_list[1]) # NOPART
  /\ \E i \in 1..Len(PreBody.parts) : listIn(PreBody.parts[i].equipment, last.obj)

(* the occupants of part i of B do not keep an item of class type off *)
Layerable(B, i, type) ==
  \A k \in 1..Len(B.parts[i].equipment) : ItemClass[B.parts[i].equipment[k]] # type

(* C4: with force = false and an equipment class given, the call succeeds  *)
(* exactly when the list is non-empty, names existing parts without        *)
(* repeating one, and no named part has an occupant of that class; the     *)
(* item then joins the occupants already there.                            *)
C4_LayeringRule ==
  (last.op = "bodyEquipPosnamesEx" /\ ~last.force /\ last.type # NULL) =>
    /\ last.ret <=>
         /\ last.pos_list # <<>>
         /\ NoRepeat(last.pos_list)
         /\ \A k \in 1..Len(last.pos_list) :
              /\ PartsNamed(PreBody, last.pos_list[k]) # {}
              /\ \A i \in PartsNamed(PreBody, last.pos_list[k]) :
                   Layerable(PreBody, i, last.type)
    /\ last.ret => AddedExactlyTo(Requested(PreBody, last.pos_list), last.obj)

(* B of class cloak has been layered over A of class armor *)
C4_Witness ==
  /\ last.op = "bodyEquipPosnamesEx" /\ ~last.force /\ last.ret
  /\ last.obj = "B" /\ last.type = "cloak"
  /\ \E i \in 1..Len(PostBody.parts) :
       /\ PreBody.parts[i].equipment = <<"A">>
       /\ Len(PostBody.parts[i].equipment) = 2
       /\ listIn(PostBody.parts[i].equipment, "A")
       /\ listIn(PostBody.parts[i].equipment, "B")

(* C5: bodyEquipPosnames succeeds exactly when the list is non-empty and   *)
(* every keyword names an existing part (without case) that has no         *)
(* occupant and is not named earlier in the call; on success the item is   *)
(* added to exactly the requested parts.                                   *)
C5_PosnamesSuccess ==
  last.op = "bodyEquipPosnames" =>
    /\ last.ret <=>
         /\ last.pos_list # <<>>
         /\ NoRepeat(last.pos_list)
         /\ \A k \in 1..Len(last.pos_list) :
              /\ PartsNamed(PreBody, last.pos_list[k]) # {}
              /\ \A i \in PartsNamed(PreBody, last.pos_list[k]) :
                   PreBody.parts[i].equipment = <<>>
    /\ last.ret => AddedExactlyTo(Requested(PreBody, last.pos_list), last.obj)

(* a successful two-name call, one name in another case than the part's *)
C5_Witness ==
  /\ last.op = "bodyEquipPosnames" /\ last.ret
  /\ last.pos_list = <<"left hand", "RIGHT HAND">>
  /\ PostBody.parts[1].equipment = <<last.obj>>
  /\ PostBody.parts[2].equipment = <<last.obj>>

RECURSIVE FirstFree(_, _, _)
(* for each type in request order, the first part in body order of that    *)
(* type that is unoccupied in B and not taken by an earlier type           *)
FirstFree(B, types, taken) ==
  IF types = <<>> THEN <<>>
  ELSE LET free == {i \in 1..Len(B.parts) :
                      /\ Lower(B.parts[i].type) = Lower(Head(types))
                      /\ B.parts[i].equipment = <<>>
                      /\ i \notin taken}
       IN  IF free = {} THEN FirstFree(B, Tail(types), taken)
           ELSE LET f == CHOOSE i \in free : \A j \in free : i <= j
                IN  <<f>> \o FirstFree(B, Tail(types), taken \cup {f})

(* C6: on success bodyEquipPostypes has added the item to as many distinct *)
(* parts as types were requested, the first free part of each type in      *)
(* request order, and has changed no other part.                           *)
C6_PostypesFirstFree ==
  (last.op = "bodyEquipPostypes" /\ last.ret) =>
    LET alloc == FirstFree(PreBody, last.pos_list, {})
        S     == {alloc[k] : k \in 1..Len(alloc)}
    IN  /\ Len(alloc) = Len(last.pos_list)
        /\ Cardinality(S) = Len(last.pos_list)
        /\ AddedExactlyTo(S, last.obj)

(* one call has taken both ears *)
C6_Witness ==
  /\ last.op = "bodyEquipPostypes" /\ last.ret
  /\ last.pos_list = <<"ear", "EAR">>
  /\ PostBody.parts[3].equipment = <<last.obj>>
  /\ PostBody.parts[4].equipment = <<last.obj>>

-----------------------------------------------------------------------------
(* Properties of bodies in memory *)

(* the calls that change a body in place *)
Mutations ==
  {"bodyEquipPostypes", "bodyEquipPosnames", "bodyEquipPosnamesEx", "bodyUnequip",
   "bodyAddPosition", "bodyRemovePosition", "bodySetSize"}

(* C7: a change made to the body of one creature leaves the body of every  *)
(* other creature of the same race, and the template of that race, as they *)
(* were; the item one creature equips is not reported on the other.        *)
C7_RaceIsolation ==
  (last.op \in Mutations /\ last.ch \in Creatures) =>
    \A d \in Creatures \ {last.ch} :
      (ch_race[d] = ch_race[last.ch] /\ ch_body[d] # NOBODY) =>
        /\ ch_body[d] = last.pre.ch_body[d]
        /\ heap[ch_body[d]] = last.pre.heap[ch_body[d]]
        /\ race_table[ch_race[d]] = last.pre.race_table[ch_race[d]]
        /\ race_table[ch_race[d]] # NOBODY =>
             heap[race_table[ch_race[d]]] = last.pre.heap[race_table[ch_race[d]]]
        /\ last.obj # NULL =>
             bodyEquippedWhere(heap[ch_body[d]], last.obj)
               = bodyEquippedWhere(last.pre.heap[ch_body[d]], last.obj)

(* c1, on a body handed out by the race table after boot, has equipped A;  *)
(* c2 does not wear it                                                     *)
C7_Witness ==
  /\ last.op = "bodyEquipPosnames" /\ last.ret /\ last.ch = "c1"
  /\ ch_body["c1"] # BootBodies["c1"]
  /\ ch_race["c1"] = ch_race["c2"]
  /\ bodyEquippedWhere(charGetBody("c1"), "A") = <<"left hand">>
  /\ bodyEquippedWhere(charGetBody("c2"), "A") = <<>>

C9_CopyRoundTrip ==
  last.op = "charCopyTo" =>
    LET from == last.name
        src  == last.pre.heap[last.pre.ch_body[from]]
        cpy  == heap[ch_body[last.ch]]
    IN  /\ cpy.live
        /\ ch_body[last.ch] # ch_body[from]
        /\ cpy.size = src.size
        /\ Len(cpy.parts) = Len(src.parts)
        /\ \A i \in 1..Len(src.parts) :
             /\ cpy.parts[i].name = src.parts[i].name
             /\ cpy.parts[i].type = src.parts[i].type
             /\ cpy.parts[i].size = src.parts[i].size
             /\ cpy.parts[i].equipment = <<>>
        /\ ch_body[from] = last.pre.ch_body[from]
        /\ heap[ch_body[from]] = src

(* a copy of a body that has an occupant and a part added by a script *)
C9_Witness ==
  /\ last.op = "charCopyTo"
  /\ \E i \in 1..Len(heap[ch_body[last.name]].parts) :
       heap[ch_body[last.name]].parts[i].equipment # <<>>
  /\ Len(heap[ch_body[last.ch]].parts) > Len(HumanParts)

(* no two parts of B have the same name, compared without case *)
UniqueNames(B) ==
  \A i, j \in 1..Len(B.parts) :
    i < j => Lower(B.parts[i].name) # Lower(B.parts[j].name)

(* C10: in every state no body has two parts whose names are equal without *)
(* regard to case.                                                         *)
C10_NameUniqueness ==
  \A a \in Addrs : heap[a].live => UniqueNames(heap[a])

(* bodyAddPosition was given "Tail" for a body that had a part "tail" *)
C10_Witness ==
  /\ last.op = "bodyAddPosition" /\ last.name = "Tail"
  /\ \E i \in 1..Len(PreBody.parts) : PreBody.parts[i].name = "tail"
  /\ Len(PostBody.parts) = Len(PreBody.parts)

-----------------------------------------------------------------------------
(* Properties of the parts of a body *)

(* C11: every part of every body has weight >= 0 in every state, whatever  *)
(* integer weight bodyAddPosition is given, for a new part and for an      *)
(* existing part of that name.                                             *)
C11_WeightInvariant ==
  \A a \in Addrs : heap[a].live =>
    \A i \in 1..Len(heap[a].parts) : heap[a].parts[i].size >= 0

(* C12: bodyAddPosition with a name the body already has (without case)    *)
(* keeps the number of parts, leaves one part of that name, which carries  *)
(* the type and the weight of the call, and changes neither the occupants  *)
(* of that part nor any other part.                                        *)
C12_Upsert ==
  (last.op = "bodyAddPosition" /\ PartsNamed(PreBody, last.name) # {}) =>
    /\ Len(PostBody.parts) = Len(PreBody.parts)
    /\ PostBody.size = PreBody.size
    /\ Cardinality(PartsNamed(PostBody, last.name)) = 1
    /\ \A i \in 1..Len(PreBody.parts) :
         IF i \in PartsNamed(PreBody, last.name)
         THEN /\ PostBody.parts[i].name = PreBody.parts[i].name
              /\ PostBody.parts[i].type = last.type
              /\ PostBody.parts[i].size = last.size
              /\ PostBody.parts[i].equipment = PreBody.parts[i].equipment
         ELSE PostBody.parts[i] = PreBody.parts[i]

(* the part "tail", holding A, is given another type and weight under the  *)
(* name "Tail"                                                             *)
C12_Witness ==
  /\ last.op = "bodyAddPosition" /\ last.name = "Tail"
  /\ \E i \in 1..Len(PreBody.parts) :
       /\ PreBody.parts[i].name = "tail"
       /\ PreBody.parts[i].equipment = <<"A">>
       /\ PreBody.parts[i].type # last.type
       /\ PreBody.parts[i].size # last.size
       /\ PostBody.parts[i].type = last.type
       /\ PostBody.parts[i].size = last.size
       /\ PostBody.parts[i].equipment = <<"A">>

-----------------------------------------------------------------------------
(* Properties of the weighted sampler *)

(* the parts of B a filter lets through: all of them for a null or empty   *)
(* filter, else those one of its keywords names                            *)
Candidates(B, pos) ==
  {i \in 1..Len(B.parts) :
     \/ pos.null
     \/ pos.keys = <<>>
     \/ \E k \in 1..Len(pos.keys) : Lower(pos.keys[k]) = Lower(B.parts[i].name)}

(* the parts of B one of the keywords names *)
Matched(B, pos) ==
  {i \in 1..Len(B.parts) :
     \E k \in 1..Len(pos.keys) : Lower(pos.keys[k]) = Lower(B.parts[i].name)}

RECURSIVE WeightOf(_, _)
(* the sum of the weights of the parts of B with index in S *)
WeightOf(B, S) ==
  IF S = {} THEN 0
  ELSE LET i == CHOOSE j \in S : TRUE
       IN  B.parts[i].size + WeightOf(B, S \ {i})

(* w1 + ... + wi over the candidates up to index i *)
Prefix(B, pos, i) == WeightOf(B, {j \in Candidates(B, pos) : j <= i})

(* C13: when the candidates' weights sum to W >= 2, the part returned for  *)
(* the roll r is the candidate i with w1+...+w(i-1) < r <= w1+...+wi, and  *)
(* exactly wi of the rolls 1..W return candidate i (the rolls are counted  *)
(* once for a body and filter, in the call of roll 1).                     *)
C13_Proportional ==
  LET C == Candidates(PreBody, last.pos)
      W == WeightOf(PreBody, C)
  IN  (last.op = "bodyRandPart" /\ W >= 2) =>
        /\ last.roll \in 1..W
        /\ \E i \in C :
             /\ PreBody.parts[i].name = last.part
             /\ Prefix(PreBody, last.pos, i - 1) < last.roll
             /\ last.roll <= Prefix(PreBody, last.pos, i)
        /\ last.roll = 1 =>
             \A i \in C :
               Cardinality({r \in 1..W :
                  bodyRandPart(PreBody, last.pos, r, "goes on").ret
                    = PreBody.parts[i].name}) = PreBody.parts[i].size

(* C14: bodyRandPart never returns a part of weight 0, for any body, any   *)
(* filter and any roll, though such parts are among the candidates.        *)
C14_NeverWeightZero ==
  (last.op = "bodyRandPart" /\ last.part # NULL /\ last.part # ABORT) =>
    \A i \in 1..Len(PreBody.parts) :
      PreBody.parts[i].name = last.part => PreBody.parts[i].size # 0

(* roll 1 with the filter "torso,left ear": the left ear, of weight 0,     *)
(* comes first among the candidates and the torso is returned              *)
C14_Witness ==
  /\ last.op = "bodyRandPart" /\ last.roll = 1 /\ last.part = "torso"
  /\ last.pos = Str(<<"torso", "left ear">>)
  /\ \E i \in Candidates(PreBody, last.pos) :
       /\ PreBody.parts[i].name = "left ear"
       /\ PreBody.parts[i].size = 0
       /\ \A j \in Candidates(PreBody, last.pos) : i <= j

(* C15: bodyRandPart returns NULL exactly when the candidates' weights sum *)
(* to 1 or less, and for a sum of 2 or more the name of a candidate.       *)
C15_NoPartFound ==
  LET C == Candidates(PreBody, last.pos)
      W == WeightOf(PreBody, C)
  IN  last.op = "bodyRandPart" =>
        /\ last.part = NULL <=> W <= 1
        /\ W >= 2 => \E i \in C : PreBody.parts[i].name = last.part

(* the total weight and the matched weight of the body of the last call *)
TotalWeight   == WeightOf(PreBody, 1..Len(PreBody.parts))
MatchedWeight == WeightOf(PreBody, Matched(PreBody, last.pos))

(* C16: bodyPartRatio is the weight of the parts the filter names over the *)
(* weight of all parts, and 0 when the body weighs 0 or the filter names   *)
(* no part; equipping an item changes no ratio.                            *)
C16_MassRatio ==
  /\ last.op = "bodyPartRatio" =>
       /\ last.ratio.den > 0
       /\ TotalWeight # 0 =>
            last.ratio.num * TotalWeight = MatchedWeight * last.ratio.den
       /\ (TotalWeight = 0 \/ Matched(PreBody, last.pos) = {}) => last.ratio = Zero
  /\ last.op = "bodyEquipPosnames" =>
       \A pos \in Filters \ {NullStr} :
         bodyPartRatio(PostBody, pos) = bodyPartRatio(PreBody, pos)

(* the hands, 2 and 2, of a body of torso 50, arms 7 and 7 and hands:      *)
(* 4/68, that is 1/17                                                      *)
C16_Witness ==
  /\ last.op = "bodyPartRatio"
  /\ last.pos = Str(<<"left hand", "RIGHT HAND">>)
  /\ Len(PreBody.parts) = 5
  /\ \E i \in 1..5 : PreBody.parts[i].name = "torso" /\ PreBody.parts[i].size = 50
  /\ \E i \in 1..5 : PreBody.parts[i].name = "left arm" /\ PreBody.parts[i].size = 7
  /\ \E i \in 1..5 : PreBody.parts[i].name = "right arm" /\ PreBody.parts[i].size = 7
  /\ MatchedWeight = 4 /\ TotalWeight = 68
  /\ last.ratio = [num |-> 1, den |-> 17]

(* C17: with an empty or null filter bodyRandPart draws over every part of *)
(* the body, and bodyPartRatio with an empty filter counts every part in   *)
(* the numerator.                                                          *)
C17_EmptyFilterMeansAll ==
  LET All == 1..Len(PreBody.parts)
  IN  /\ (last.op = "bodyRandPart" /\ (last.pos.null \/ last.pos.keys = <<>>)) =>
           /\ last.part \in {NULL, ABORT} <=> TotalWeight <= 1
           /\ TotalWeight >= 2 =>
                \E i \in All :
                  /\ PreBody.parts[i].name = last.part
                  /\ WeightOf(PreBody, 1..(i - 1)) < last.roll
                  /\ last.roll <= WeightOf(PreBody, 1..i)
      /\ (last.op = "bodyPartRatio" /\ last.pos.keys = <<>> /\ TotalWeight # 0) =>
           last.ratio = [num |-> 1, den |-> 1]

-----------------------------------------------------------------------------
(* Properties of creatures and their races *)

(* the body at address a is a copy of the template of race R: another      *)
(* cell, the template's part names, types, weights and size, no occupant   *)
FreshCopyOf(a, R) ==
  /\ a # NOBODY /\ race_table[R] # NOBODY /\ a # race_table[R]
  /\ heap[a].live
  /\ heap[a].size = heap[race_table[R]].size
  /\ Len(heap[a].parts) = Len(heap[race_table[R]].parts)
  /\ \A i \in 1..Len(heap[a].parts) :
       /\ heap[a].parts[i].name = heap[race_table[R]].parts[i].name
       /\ heap[a].parts[i].type = heap[race_table[R]].parts[i].type
       /\ heap[a].parts[i].size = heap[race_table[R]].parts[i].size
       /\ heap[a].parts[i].equipment = <<>>

(* C18: a creature read back from its storage set has a body equal to a    *)
(* fresh copy of the template of the race stored, or of the default race   *)
(* when the race stored is not registered at that time; the parts added,   *)
(* removed or re-weighted before are not kept and no part has an occupant. *)
C18_Persistence ==
  last.op = "charRead" =>
    LET saved == last.pre.store[last.ch].race
        R     == IF race_table[saved] # NOBODY THEN saved ELSE raceDefault
    IN  /\ ch_race[last.ch] = R
        /\ race_table = last.pre.race_table
        /\ FreshCopyOf(ch_body[last.ch], R)

(* C19: after PyChar_setrace with a registered race R the creature has the *)
(* race R and a body with exactly the parts and the size of R's template,  *)
(* no occupant, and nothing of the old body, which is deleted; with an     *)
(* unregistered race the call is refused and race and body are unchanged.  *)
C19_RaceReassignment ==
  last.op = "PyChar_setrace" =>
    IF last.pre.race_table[last.name] # NOBODY
    THEN /\ last.ret
         /\ ch_race[last.ch] = last.name
         /\ FreshCopyOf(ch_body[last.ch], last.name)
         /\ ch_body[last.ch] # last.pre.ch_body[last.ch]
         /\ last.pre.ch_body[last.ch] # NOBODY =>
              heap[last.pre.ch_body[last.ch]] = FreeCell
         /\ race_table = last.pre.race_table
         /\ heap[race_table[last.name]] = last.pre.heap[race_table[last.name]]
    ELSE /\ ~last.ret
         /\ ch_race = last.pre.ch_race
         /\ ch_body = last.pre.ch_body
         /\ heap = last.pre.heap

(* a human with a tail added and A in the left hand becomes an elf, whose  *)
(* template has one part, a wing                                           *)
C19_Witness ==
  /\ last.op = "PyChar_setrace" /\ last.ret /\ last.name = "elf"
  /\ last.pre.ch_race[last.ch] = "human"
  /\ last.pre.ch_body[last.ch] # NOBODY
  /\ LET old == last.pre.heap[last.pre.ch_body[last.ch]]
     IN  /\ Len(old.parts) = 5
         /\ old.parts[2].equipment = <<"A">>
         /\ old.parts[5].name = "tail"
  /\ Len(heap[ch_body[last.ch]].parts) = 1
  /\ heap[ch_body[last.ch]].parts[1].name = "wing"
  /\ heap[ch_body[last.ch]].parts[1].equipment = <<>>

(* an unregistered race is refused *)
C19_WitnessRefused ==
  /\ last.op = "PyChar_setrace" /\ ~last.ret /\ last.name = "elf"
  /\ ch_race[last.ch] = "human"

(* the items of L other than obj, in their order *)
Others(L, obj) == SelectSeq(L, LAMBDA x : x # obj)

(* C20: after bodyUnequip no part's occupant list contains the item, the   *)
(* other items are on the same parts in the same order, and the call       *)
(* returns true exactly when some part held the item.                      *)
C20_Unequip ==
  last.op = "bodyUnequip" =>
    /\ last.ret <=> \E i \in 1..Len(PreBody.parts) :
                      listIn(PreBody.parts[i].equipment, last.obj)
    /\ Len(PostBody.parts) = Len(PreBody.parts)
    /\ PostBody.size = PreBody.size
    /\ \A i \in 1..Len(PreBody.parts) :
         /\ PostBody.parts[i].name = PreBody.parts[i].name
         /\ PostBody.parts[i].type = PreBody.parts[i].type
         /\ PostBody.parts[i].size = PreBody.parts[i].size
         /\ Others(PostBody.parts[i].equipment, last.obj)
              = Others(PreBody.parts[i].equipment, last.obj)
         /\ ~listIn(PostBody.parts[i].equipment, last.obj)
         /\ Len(PostBody.parts[i].equipment) + 
              Cardinality({k \in 1..Len(PreBody.parts[i].equipment) :
                             PreBody.parts[i].equipment[k] = last.obj})
              = Len(PreBody.parts[i].equipment)

(* A was held by two parts, one of them under or over another item; it is  *)
(* gone from both and the other item is still there                        *)
C20_Witness ==
  /\ last.op = "bodyUnequip" /\ last.ret /\ last.obj = "A"
  /\ Cardinality({i \in 1..Len(PreBody.parts) :
                    listIn(PreBody.parts[i].equipment, "A")}) = 2
  /\ \E i \in 1..Len(PreBody.parts) :
       /\ listIn(PreBody.parts[i].equipment, "A")
       /\ Len(PreBody.parts[i].equipment) = 2
       /\ Len(PostBody.parts[i].equipment) = 1
  /\ \A i \in 1..Len(PostBody.parts) : ~listIn(PostBody.parts[i].equipment, "A")

-----------------------------------------------------------------------------
(* Properties of taking off and of the queries *)

(* the items that at least one part of B holds *)
WornItems(B) ==
  {obj \in Items : \E i \in 1..Len(B.parts) : listIn(B.parts[i].equipment, obj)}

(* the list holds exactly the items of S, each once *)
ListsOnce(L, S) ==
  /\ {L[k] : k \in 1..Len(L)} = S
  /\ Len(L) = Cardinality(S)

(* nothing in memory differs from what it was when the call was made *)
NothingChanged ==
  /\ heap = last.pre.heap /\ ch_body = last.pre.ch_body
  /\ ch_race = last.pre.ch_race /\ race_table = last.pre.race_table
  /\ capsule = last.pre.capsule /\ store = last.pre.store
  /\ bodysize_list = last.pre.bodysize_list
  /\ bodypos_list = last.pre.bodypos_list

(* C21: after bodyUnequipAll every part has an empty equipment list and    *)
(* the list returned holds each item that some part held before the call   *)
(* exactly once and nothing else; it is the list bodyGetAllEq gives for    *)
(* the body before the call.  bodyGetAllEq returns such a list too and     *)
(* changes nothing.                                                        *)
C21_UnequipAll ==
  /\ last.op = "bodyUnequipAll" =>
        /\ \A i \in 1..Len(PostBody.parts) : PostBody.parts[i].equipment = <<>>
        /\ ~last.list.null
        /\ ListsOnce(last.list.list, WornItems(PreBody))
        /\ last.list.list = bodyGetAllEq(PreBody)
  /\ last.op = "bodyGetAllEq" =>
        /\ ~last.list.null
        /\ ListsOnce(last.list.list, WornItems(PreBody))
        /\ NothingChanged

(* bodyUnequipAll on a body that wore one item on two parts and a second   *)
(* item layered on one of them                                             *)
C21_Witness ==
  /\ last.op = "bodyUnequipAll"
  /\ Len(last.list.list) = 2
  /\ \E i, j \in 1..Len(PreBody.parts) :
        /\ i # j
        /\ Len(PreBody.parts[i].equipment) = 2
        /\ \E obj \in Items : /\ listIn(PreBody.parts[i].equipment, obj)
                              /\ listIn(PreBody.parts[j].equipment, obj)

(* the parts of B that hold obj *)
Holding(B, obj) ==
  {i \in 1..Len(B.parts) : listIn(B.parts[i].equipment, obj)}

(* the k-th part of B that holds obj, in body order *)
KthHolding(B, obj, k) ==
  CHOOSE i \in Holding(B, obj) :
    Cardinality({j \in Holding(B, obj) : j <= i}) = k

(* C22: bodyEquippedWhere names exactly the parts whose equipment list     *)
(* holds the item, each once and in body order, names nothing when no part *)
(* holds it, and changes nothing; after bodyEquipPosnames or               *)
(* bodyEquipPosnamesEx returned TRUE it names every requested part (names  *)
(* are compared without case, as the equip matched them).                  *)
C22_EquippedWhere ==
  /\ last.op = "bodyEquippedWhere" =>
        /\ Len(last.pos_list) = Cardinality(Holding(PreBody, last.obj))
        /\ \A k \in 1..Len(last.pos_list) :
             last.pos_list[k] = PreBody.parts[KthHolding(PreBody, last.obj, k)].name
        /\ NothingChanged
  /\ (last.op \in {"bodyEquipPosnames", "bodyEquipPosnamesEx"} /\ last.ret) =>
        LET where == bodyEquippedWhere(PostBody, last.obj)
        IN  \A k \in 1..Len(last.pos_list) :
              \E n \in 1..Len(where) : strcasecmp(where[n], last.pos_list[k]) = 0

(* the query on a body that wears the item on both hands, after an equip   *)
(* by the names "RIGHT HAND", "left hand"                                  *)
C22_Witness ==
  /\ last.op = "bodyEquippedWhere"
  /\ last.pos_list = <<"right hand", "left hand">>
  /\ \E obj \in Items \ {last.obj} : Holding(PreBody, obj) # {}

(* the query for an item that no part holds *)
C22_WitnessNowhere ==
  /\ last.op = "bodyEquippedWhere" /\ last.pos_list = <<>>
  /\ WornItems(PreBody) # {}

-----------------------------------------------------------------------------
(* Properties of bodyEquipPosnamesEx without a type and with force *)

(* every keyword of the list names a part of B, and none names the part of *)
(* an earlier keyword                                                      *)
AllExistOnce(B, pos_list) ==
  /\ NoRepeat(pos_list)
  /\ \A k \in 1..Len(pos_list) : PartsNamed(B, pos_list[k]) # {}

(* some part that the list names has an occupant *)
NamesOccupied(B, pos_list) ==
  \E i \in Requested(B, pos_list) : B.parts[i].equipment # <<>>

C24_NullConflictsWithAll ==
  (/\ last.op = "bodyEquipPosnamesEx" /\ ~last.force /\ last.type = NULL
   /\ NamesOccupied(PreBody, last.pos_list)) =>
    ~last.ret

(* C25: with force = true the call succeeds exactly when the list is not   *)
(* empty and every requested name exists and is not repeated, whatever the *)
(* occupants and whatever equipment type is given; the item then joins the *)
(* occupants of each named part, which stay.                               *)
C25_ForceOverride ==
  (last.op = "bodyEquipPosnamesEx" /\ last.force) =>
    /\ last.ret <=> (last.pos_list # <<>> /\ AllExistOnce(PreBody, last.pos_list))
    /\ last.ret => AddedExactlyTo(Requested(PreBody, last.pos_list), last.obj)

(* C of class armor was forced onto a part that held A of class armor,     *)
(* with the type armor given                                               *)
C25_Witness ==
  /\ last.op = "bodyEquipPosnamesEx" /\ last.force /\ last.ret
  /\ last.obj = "C" /\ last.type = "armor"
  /\ \E i \in Requested(PreBody, last.pos_list) :
        /\ listIn(PreBody.parts[i].equipment, "A")
        /\ listIn(PostBody.parts[i].equipment, "A")
        /\ listIn(PostBody.parts[i].equipment, "C")

(* C26: bodyEquipPostypes, bodyEquipPosnames and bodyEquipPosnamesEx return *)
(* failure and change nothing when the list of requested slots is empty,   *)
(* bodyEquipPosnamesEx also with force = true.                             *)
C26_EmptyListFails ==
  (/\ last.op \in {"bodyEquipPostypes", "bodyEquipPosnames", "bodyEquipPosnamesEx"}
   /\ last.pos_list = <<>>) =>
    /\ ~last.ret
    /\ NothingChanged

(* the forced call with the empty list, on a body that wears something *)
C26_Witness ==
  /\ last.op = "bodyEquipPosnamesEx" /\ last.force /\ last.pos_list = <<>>
  /\ WornItems(PreBody) # {}

(* the calls by types and by names with the empty list *)
C26_WitnessTypes ==
  last.op = "bodyEquipPostypes" /\ last.pos_list = <<>>

C26_WitnessNames ==
  last.op = "bodyEquipPosnames" /\ last.pos_list = <<>>

(* C29: bodyRemovePosition removes exactly the part of the given name      *)
(* (compared without case) and returns true, also when the part has        *)
(* occupants, and the other parts keep their fields, their occupants and   *)
(* their order; when the body has no such part it returns false and        *)
(* changes nothing.                                                        *)
C29_RemovePosition ==
  last.op = "bodyRemovePosition" =>
    IF PartsNamed(PreBody, last.name) = {}
    THEN ~last.ret /\ NothingChanged
    ELSE /\ last.ret
         /\ Len(PostBody.parts) = Len(PreBody.parts) - 1
         /\ PostBody.parts =
              SelectSeq(PreBody.parts, LAMBDA P : Lower(P.name) # Lower(last.name))
         /\ PostBody.size = PreBody.size
         /\ \A a \in Addrs \ {last.addr} : heap[a] = last.pre.heap[a]

(* the left hand was removed by the name "Left Hand" while it held an item *)
(* and another part held one too                                           *)
C29_Witness ==
  /\ last.op = "bodyRemovePosition" /\ last.ret /\ last.name = "Left Hand"
  /\ \E i \in PartsNamed(PreBody, last.name) : PreBody.parts[i].equipment # <<>>
  /\ \E i \in 1..Len(PostBody.parts) : PostBody.parts[i].equipment # <<>>

(* C30: bodyGetEquipment returns NULL when the body has no part of the     *)
(* given name and when the part exists and nothing is equipped on it;      *)
(* otherwise it returns the list of the objects equipped on the part.      *)
C30_GetEquipment ==
  last.op = "bodyGetEquipment" =>
    IF \/ PartsNamed(PreBody, last.name) = {}
       \/ \A i \in PartsNamed(PreBody, last.name) : PreBody.parts[i].equipment = <<>>
    THEN last.list.null
    ELSE /\ ~last.list.null
         /\ \A i \in PartsNamed(PreBody, last.name) :
              last.list.list = PreBody.parts[i].equipment

-----------------------------------------------------------------------------
(* Properties of the registries *)

(* the race table has an entry for the name *)
Registered(table, name) == table[name] # NOBODY

(* C27: raceCreateBody returns a body exactly when the race is registered  *)
(* at the time of the call (seen in charResetBody, which installs what it  *)
(* returns); remove_race returns true exactly when the race was            *)
(* registered, after it isRace is false and raceCreateBody returns NULL    *)
(* for the name, and removing an unknown name returns false and changes no *)
(* registered race.                                                        *)
C27_RaceLookups ==
  /\ last.op = "charResetBody" =>
        /\ last.addr # NOBODY <=>
             Registered(last.pre.race_table, last.pre.ch_race[last.ch])
        /\ last.addr # NOBODY => heap[last.addr].live
        /\ ch_body[last.ch] = last.addr
  /\ last.op = "remove_race" =>
        /\ last.ret <=> Registered(last.pre.race_table, last.name)
        /\ ~isRace(race_table, last.name)
        /\ raceCreateBody(heap, race_table, last.name).ret = NOBODY
        /\ \A other \in RaceNames \ {last.name} :
             /\ race_table[other] = last.pre.race_table[other]
             /\ Registered(race_table, other) =>
                  heap[race_table[other]] = last.pre.heap[race_table[other]]
        /\ ~last.ret => (race_table = last.pre.race_table /\ heap = last.pre.heap)

(* the body of a creature was reset after its race had been removed, while *)
(* another race was still registered                                       *)
C27_Witness ==
  /\ last.op = "charResetBody" /\ last.addr = NOBODY
  /\ last.pre.ch_body[last.ch] # NOBODY
  /\ \E other \in RaceNames : Registered(race_table, other)

(* a registered race was removed; an unknown one was asked to be removed *)
C27_WitnessRemoved ==
  last.op = "remove_race" /\ last.ret /\ last.name = "elf"

C27_WitnessUnknown ==
  /\ last.op = "remove_race" /\ ~last.ret
  /\ \E other \in RaceNames : Registered(race_table, other)

(* what the registries hold, as the getters give it *)
SizesBefore == body_get_all_sizes(last.pre.bodysize_list, last.pre.bodypos_list)
SizesNow    == body_get_all_sizes(bodysize_list, bodypos_list)
TypesBefore == body_get_all_position_types(last.pre.bodysize_list,
                                           last.pre.bodypos_list)
TypesNow    == body_get_all_position_types(bodysize_list, bodypos_list)

(* the list has a label equal to the given one without regard to case *)
Present(L, label) == \E i \in 1..Len(L) : Lower(L[i]) = Lower(label)

(* the list without the labels equal to the given one *)
Without(L, label) == SelectSeq(L, LAMBDA x : Lower(x) # Lower(label))

(* no two labels of the list are equal without regard to case *)
UniqueLabels(L) ==
  \A i, j \in 1..Len(L) : i < j => Lower(L[i]) # Lower(L[j])

(* add: refused without change when an equal label is present, else the   *)
(* label is appended                                                       *)
AddContract(before, now) ==
  IF Present(before, last.name)
  THEN ~last.ret /\ now = before
  ELSE last.ret /\ now = Append(before, last.name)

(* remove: refused without change when no equal label is present, else the *)
(* one label is removed                                                    *)
RemoveContract(before, now) ==
  IF ~Present(before, last.name)
  THEN ~last.ret /\ now = before
  ELSE /\ last.ret
       /\ now = Without(before, last.name)
       /\ Len(now) = Len(before) - 1

C28_WitnessRemoved ==
  /\ last.op = "body_remove_position_type" /\ last.name = "HEAD" /\ last.ret
  /\ ~Present(TypesNow, "head")

(* the first call of all was on the size registry *)
C28_WitnessFirstCall ==
  /\ last.op = "body_add_size" /\ last.ret
  /\ last.pre.bodypos_list.null /\ ~bodypos_list.null

-----------------------------------------------------------------------------
(* Properties of the resources and of whole histories *)

(* C38: on every path of bodyRandPart, the early return for a candidate    *)
(* weight sum <= 1 included, each list iterator that was created is        *)
(* released exactly once.                                                  *)
C38_IteratorsReleasedOnce ==
  last.op = "bodyRandPart" =>
    /\ Len(last.iters) >= 1
    /\ \A k \in 1..Len(last.iters) : last.iters[k] = 1

(* C35: for every body built by bodyAddPosition and bodyRemovePosition     *)
(* with any integer weights, and for every filter, the result r of         *)
(* bodyPartRatio satisfies 0 <= r <= 1 (r is last.ratio.num /              *)
(* last.ratio.den with a denominator > 0).                                 *)
C35_RatioIsFraction ==
  last.op = "bodyPartRatio" =>
    /\ last.ratio.den > 0
    /\ 0 <= last.ratio.num
    /\ last.ratio.num <= last.ratio.den

(* C34: when bodies are equipped only by bodyEquipPostypes and             *)
(* bodyEquipPosnames (never bodyEquipPosnamesEx), stripped by bodyUnequip  *)
(* and bodyUnequipAll and edited by bodyAddPosition and                    *)
(* bodyRemovePosition, every part of every body has at most one occupant   *)
(* in every state, after calls that succeeded and after calls that failed. *)
C34_SlotsExclusive ==
  \A a \in Addrs : heap[a].live =>
    \A i \in 1..Len(heap[a].parts) : listSize(heap[a].parts[i].equipment) <= 1

(* bodyEquipPosnames failed and left the item on a part it had staged,     *)
(* while another part held another item                                    *)
C34_Witness ==
  /\ last.op = "bodyEquipPosnames" /\ ~last.ret
  /\ \E i \in 1..Len(PostBody.parts) :
       /\ PreBody.parts[i].equipment = <<>>
       /\ PostBody.parts[i].equipment = <<last.obj>>
  /\ \E i \in 1..Len(PostBody.parts), obj \in Items \ {last.obj} :
       PostBody.parts[i].equipment = <<obj>>

(* bodyEquipPostypes was refused for want of a free part of the type *)
C34_WitnessTypes ==
  /\ last.op = "bodyEquipPostypes" /\ ~last.ret /\ last.pos_list = <<"ear", "EAR">>
  /\ \E i \in 1..Len(PreBody.parts) :
       PreBody.parts[i].type = "ear" /\ PreBody.parts[i].equipment # <<>>

(* C33: in every state no item appears more than once in the equipment     *)
(* list of a part, whatever sequence of bodyEquipPostypes,                 *)
(* bodyEquipPosnames, bodyEquipPosnamesEx (repeated for the same item and  *)
(* name with force or without a type included), bodyUnequip and            *)
(* bodyUnequipAll led to it.                                               *)
C33_NoDuplicateOccupants ==
  \A a \in Addrs : heap[a].live =>
    \A i \in 1..Len(heap[a].parts) :
      \A k, n \in 1..Len(heap[a].parts[i].equipment) :
        k < n => heap[a].parts[i].equipment[k] # heap[a].parts[i].equipment[n]

(* C32: every creature has a body in every state, after any sequence of    *)
(* race assignments, body resets and race registrations and removals, the  *)
(* removal of a creature's current race or of the default race included.   *)
C32_BodyNeverNull ==
  \A ch \in Creatures :
    /\ ch_body[ch] # NOBODY
    /\ heap[ch_body[ch]].live

(* the target's body is a new body with the parts and the size of the      *)
(* source's body before the call, and no occupant                          *)
CopiedFrom(from, to) ==
  LET src == last.pre.heap[last.pre.ch_body[from]]
      cpy == heap[ch_body[to]]
  IN  /\ ch_body[to] # NOBODY /\ cpy.live
      /\ ch_body[to] # ch_body[from]
      /\ cpy.size = src.size
      /\ Len(cpy.parts) = Len(src.parts)
      /\ \A i \in 1..Len(src.parts) :
           /\ cpy.parts[i].name = src.parts[i].name
           /\ cpy.parts[i].type = src.parts[i].type
           /\ cpy.parts[i].size = src.parts[i].size
           /\ cpy.parts[i].equipment = <<>>

(* C37: charCopyTo gives the target the race of the source and a body with *)
(* the part names, types, weights and size of the source's current body,   *)
(* the changes made to it since it left the race template included, and no *)
(* occupant; afterwards a change to the body of either creature leaves the *)
(* body of the other as it was.                                            *)
C37_CharCopyTo ==
  /\ last.op = "charCopyTo" =>
       /\ last.part # ABORT
       /\ ch_race[last.ch] = last.pre.ch_race[last.name]
       /\ last.pre.ch_body[last.name] # NOBODY
       /\ CopiedFrom(last.name, last.ch)
  /\ (last.op \in Mutations /\ last.ch \in Creatures) =>
       \A d \in Creatures \ {last.ch} :
         /\ ch_body[d] = last.pre.ch_body[d]
         /\ ch_body[d] # NOBODY => heap[ch_body[d]] = last.pre.heap[ch_body[d]]

(* the name a body's size stands for in a given size list *)
SizeNameIn(sizes, types, B) == bodysizeGetName(sizes, types, B.size).ret

(* C36: the size of a body that was set from a name keeps that name when   *)
(* other names are added to or removed from the size list, and for every   *)
(* name in the list bodysizeGetNum and bodysizeGetName are inverse of each *)
(* other.                                                                  *)
C36_SizeStable ==
  /\ last.op \in {"body_add_size", "body_remove_size"} =>
       \A ch \in Creatures :
         ch_body[ch] # NOBODY =>
           LET before == SizeNameIn(last.pre.bodysize_list, last.pre.bodypos_list,
                                    last.pre.heap[ch_body[ch]])
               after  == SizeNameIn(bodysize_list, bodypos_list, heap[ch_body[ch]])
           IN  (before # NULL /\ strcasecmp(before, last.name) # 0) => after = before
  /\ LET L == init_body_dynamic(bodysize_list, bodypos_list).bodysize_list.list
     IN  \A i \in 1..Len(L) :
           /\ bodysizeGetNum(bodysize_list, bodypos_list, L[i]).ret = i - 1
           /\ bodysizeGetName(bodysize_list, bodypos_list, i - 1).ret = L[i]

(* C31: when PyChar_equip fails the item is where it was before the call:  *)
(* in the same room, container or inventory, or worn by the creature that  *)
(* wore it, on the same parts; and it is not on the body of the creature   *)
(* that was to be equipped (unless that creature wore it before).          *)
C31_FailedEquipPutsBack ==
  (last.op = "PyChar_equip" /\ ~last.ret) =>
    LET was == last.pre.obj_data[last.obj]
    IN  /\ last.part # ABORT
        /\ obj_data[last.obj] = was
        /\ was.wearer # NULL =>
             /\ ch_body[was.wearer] # NOBODY
             /\ bodyEquippedWhere(heap[ch_body[was.wearer]], last.obj)
                  = bodyEquippedWhere(last.pre.heap[last.pre.ch_body[was.wearer]],
                                      last.obj)
        /\ was.wearer # last.ch =>
             /\ ch_body[last.ch] # NOBODY
             /\ bodyEquippedWhere(heap[ch_body[last.ch]], last.obj) = <<>>

=============================================================================
